---- MODULE Spec2Model ----
(***************************************************************************)
(* A state-machine model of openllm/_llm.py: tag generation and its        *)
(* memoisation, the option merging of LLM.from_pretrained, LLM.__init__    *)
(* and the Runner factory.                                                 *)
(*                                                                         *)
(* Strings whose characters matter (model ids, versions, tags) are         *)
(* sequences of one-character strings; None is the sentinel sequence       *)
(* <<"<None>">>, which no string of the model equals.                      *)
(***************************************************************************)
EXTENDS Integers, Sequences, FiniteSets, TLC

\* None where a string of characters is expected, and None among plain values
NoneStr == <<"None">>
None == "None"

(***************************************************************************)
(* Characters and the string functions of the Python standard library.     *)
(***************************************************************************)
UpperChars == {"M", "O", "V", "R", "N", "F", "L", "P", "T"}
LowerChars == {"m", "o", "v", "r", "n", "d", "b", "h", "c", "p", "t", "f", "l", "a", "x", "i"}
DigitChars == {"0", "1", "2", "3"}
AlnumChars == UpperChars \cup LowerChars \cup DigitChars

\* str.lower on one character
LowerChar(c) ==
  CASE c = "M" -> "m" [] c = "O" -> "o" [] c = "V" -> "v" [] c = "R" -> "r"
    [] c = "N" -> "n" [] c = "F" -> "f" [] c = "L" -> "l" [] c = "P" -> "p"
    [] c = "T" -> "t" [] OTHER -> c

\* str.lower
StrLower(s) == [i \in 1..Len(s) |-> LowerChar(s[i])]

\* the index of the last occurrence of c in s, 0 when there is none
LastIndexOf(s, c) ==
  IF \E i \in 1..Len(s) : s[i] = c
  THEN CHOOSE i \in 1..Len(s) : s[i] = c /\ \A j \in (i+1)..Len(s) : s[j] # c
  ELSE 0

\* the index of the first occurrence of c in s, 0 when there is none
FirstIndexOf(s, c) ==
  IF \E i \in 1..Len(s) : s[i] = c
  THEN CHOOSE i \in 1..Len(s) : s[i] = c /\ \A j \in 1..(i-1) : s[j] # c
  ELSE 0

\* str.split(sep) (and str.rsplit(sep) without maxsplit, which is the same list)
RECURSIVE StrSplit(_, _)
StrSplit(s, sep) ==
  LET i == FirstIndexOf(s, sep)
  IN IF i = 0 THEN <<s>>
     ELSE <<SubSeq(s, 1, i-1)>> \o StrSplit(SubSeq(s, i+1, Len(s)), sep)

\* sep.join(pieces)
RECURSIVE StrJoin(_, _)
StrJoin(pieces, sep) ==
  IF Len(pieces) = 0 THEN <<>>
  ELSE IF Len(pieces) = 1 THEN pieces[1]
  ELSE pieces[1] \o <<sep>> \o StrJoin(Tail(pieces), sep)

\* re.sub("[^a-zA-Z0-9]+", "-", s): every maximal run of other characters becomes one "-"
RECURSIVE ReSubNonAlnum(_)
ReSubNonAlnum(s) ==
  IF Len(s) = 0 THEN <<>>
  ELSE IF s[1] \in AlnumChars THEN <<s[1]>> \o ReSubNonAlnum(Tail(s))
  ELSE IF Len(s) > 1 /\ s[2] \notin AlnumChars THEN ReSubNonAlnum(Tail(s))
  ELSE <<"-">> \o ReSubNonAlnum(Tail(s))

\* os.path.basename / os.path.dirname (posix)
PathBasename(p) == SubSeq(p, LastIndexOf(p, "/") + 1, Len(p))
RECURSIVE RStripSlash(_)
RStripSlash(p) ==
  IF Len(p) > 0 /\ p[Len(p)] = "/" THEN RStripSlash(SubSeq(p, 1, Len(p)-1)) ELSE p
PathDirname(p) ==
  LET head == SubSeq(p, 1, LastIndexOf(p, "/"))
  IN IF head # <<>> /\ \E i \in 1..Len(head) : head[i] # "/" THEN RStripSlash(head) ELSE head

\* fs.path.parts: the root marker followed by the non-empty components
FsPathParts(p) ==
  LET comps == SelectSeq(StrSplit(p, "/"), LAMBDA c : c # <<>>)
  IN <<IF Len(p) > 0 /\ p[1] = "/" THEN <<"/">> ELSE <<".", "/">>>> \o comps

\* the last n elements of a sequence (Python s[-n:])
LastN(s, n) == IF Len(s) <= n THEN s ELSE SubSeq(s, Len(s) - n + 1, Len(s))

\* s.startswith(prefix)
StartsWith(s, prefix) == Len(s) >= Len(prefix) /\ SubSeq(s, 1, Len(prefix)) = prefix

\* str() of a small non-negative integer
DigitStr(n) ==
  CASE n = 0 -> <<"0">> [] n = 1 -> <<"1">> [] n = 2 -> <<"2">> [] OTHER -> <<"3">>

(***************************************************************************)
(* Bounds of the model.                                                    *)
(***************************************************************************)
\* calls of generate_tag / from_pretrained in one behaviour of Spec
MaxCalls == 2
\* calls of from_pretrained / Runner in one behaviour of SpecMerge
MaxMergeCalls == 1
\* the largest modification time of the local model directory
MaxMtime == 2
MaxHandleOps == 3
\* the most steps a request takes in the vllm engine
MaxTokens == 3

(***************************************************************************)
(* The model ids, versions and subtypes the operations are called with.    *)
(***************************************************************************)
IdRemote == <<"O", "/", "m">>
IdRemoteRev == <<"O", "/", "m", ":", "R">>
IdLocal == <<"/", "d", "/", "M">>
IdLocalRel == <<"d", "/", "M">>
IdLocalMissing == <<"/", "d", "/", "x">>
IdBento == <<"/", "b", "/", "N", "/", "V">>
ModelIds == {IdRemote, IdRemoteRev, IdLocal, IdLocalRel, IdLocalMissing, IdBento}
ModelVersions == {NoneStr, <<"V">>}

\* the names of the LLM subclasses
ClsPt == <<"O", "P", "T">>
ClsVllm == <<"V", "L", "L", "M", "O", "P", "T">>
ClsTf == <<"T", "F", "O", "P", "T">>
ClsFlax == <<"F", "l", "a", "x", "O", "P", "T">>
Classes == {ClsPt, ClsVllm, ClsTf, ClsFlax}

(***************************************************************************)
(* The state.                                                              *)
(***************************************************************************)
VARIABLES
  env,        \* the process environment: in_docker() and BENTO_PATH, OPENLLM_USE_LOCAL_LATEST
  hubHead,    \* the model repository service: what a config fetch of revision "main" yields
  mtime,      \* the file system: last-modified time of each existing local model path
  tagCache,   \* the lru_cache of LLM._generate_tag_str: call key -> cached tag string
  llm,        \* the handle constructed last, NoHandle before
  lastOp,     \* history: the last call of generate_tag / from_pretrained / Runner, its outcome
  nCalls,     \* number of calls made so far
  slots,      \* the handle's __llm_model__, __llm_tokenizer__ and __llm_adapter_map__
  platform,   \* config["requires_gpu"], device_count(), and what load_model yields
  heap,       \* number of model and tokenizer objects created so far
  lastCall,   \* history: the last operation on the handle, the calls it made, its outcome
  classTable, \* the LLM subtypes defined so far, with the flags __init_subclass__ gave them
  runnable,   \* the runner's _Runnable has been constructed around the handle
  engine,     \* the vllm engine of the handle: the steps each unfinished request still needs
  procs       \* the calls running concurrently on the handle: position and locals of each

hvars == <<slots, platform, heap, lastCall, classTable, runnable, engine, procs>>
vars == <<env, hubHead, mtime, tagCache, llm, lastOp, nCalls, slots, platform, heap, lastCall,
          classTable, runnable, engine, procs>>

(***************************************************************************)
(* Helpers of openllm.utils.                                               *)
(***************************************************************************)
\* first_not_none(*args, default): the first argument that is not None
\* (none is the value that stands for None among the arguments)
FirstNotNoneFrom(args, default, none) ==
  IF \E i \in 1..Len(args) : args[i] # none
  THEN args[CHOOSE i \in 1..Len(args) : args[i] # none /\ \A j \in 1..(i-1) : args[j] = none]
  ELSE default
first_not_none(args, default) == FirstNotNoneFrom(args, default, None)
first_not_none_str(args, default) == FirstNotNoneFrom(args, default, NoneStr)

ENV_VARS_TRUE_VALUES == {"1", "ON", "YES", "TRUE"}

\* str(v).upper() for the values a flag is given as
StrUpper(v) ==
  CASE v = "True" -> "TRUE" [] v = "False" -> "FALSE" [] v = "None" -> "NONE"
    [] v = "true" -> "TRUE" [] v = "on" -> "ON" [] OTHER -> v

\* the file system: the paths that exist, and the working directory is "/"
ExistingPaths == {<<"/">>, <<"/", "d">>, IdLocal}
RealPath(p) == IF Len(p) > 0 /\ p[1] = "/" THEN p ELSE <<"/">> \o p
PathExists(p) == Len(p) > 0 /\ RealPath(p) \in ExistingPaths

\* resolve_filepath: the real path of an existing path, the argument itself otherwise
resolve_filepath(path) == IF PathExists(path) THEN RealPath(path) ELSE path

\* validate_is_path: the directory the path lies in exists
validate_is_path(maybe_path) == PathExists(PathDirname(resolve_filepath(maybe_path)))

\* generate_hash_from_file: sha1 of the last-modified time; reading it of a missing
\* path raises
HashRaises(f) == ~PathExists(f)
generate_hash_from_file(f) == <<"h">> \o DigitStr(mtime[resolve_filepath(f)])

(***************************************************************************)
(* The model repository service (transformers.AutoConfig.from_pretrained). *)
(***************************************************************************)
HubError == <<"HubError">>
HubRepos == {IdRemote}
Commits == {<<"c", "1">>, <<"c", "2">>}
\* what a fetch of "main" yields: a config with a commit hash, one without, or a failure
\* of the service
HubOutcomes == Commits \cup {NoneStr, HubError}
\* the commit a revision other than "main" names
HubRef(revision) == IF revision = <<"V">> THEN <<"c", "0">> ELSE HubError
RevMain == <<"m", "a", "i", "n">>
HubFetch(model_id, revision) ==
  IF model_id \notin HubRepos \/ hubHead[model_id] = HubError THEN HubError
  ELSE IF revision = RevMain THEN hubHead[model_id] ELSE HubRef(revision)

\* the local model store (bentoml.models.get): the stored tags, oldest first
StoredTags == << <<"p", "t", "-", "o", "-", "m", ":", "c", "0">>,
                 <<"p", "t", "-", "o", "-", "m", ":", "c", "1">> >>
StoreMatches(taglike) ==
  LET want == StrSplit(StrLower(taglike), ":")
  IN SelectSeq(StoredTags, LAMBDA tg : /\ StrSplit(tg, ":")[1] = want[1]
                                       /\ Len(want) > 1 => StrSplit(tg, ":")[2] = want[2])
\* bentoml.models.get(taglike).tag: the latest stored tag that matches
StoreGet(taglike) == LET m == StoreMatches(taglike) IN m[Len(m)]

(***************************************************************************)
(* Tag generation.                                                         *)
(***************************************************************************)
\* LLM._infer_implementation_from_name
_infer_implementation_from_name(name) ==
  IF StartsWith(name, <<"F", "l", "a", "x">>) THEN <<"f", "l", "a", "x">>
  ELSE IF StartsWith(name, <<"T", "F">>) THEN <<"t", "f">>
  ELSE IF StartsWith(name, <<"V", "L", "L", "M">>) THEN <<"v", "l", "l", "m">>
  ELSE <<"p", "t">>

normalise_model_name(name) ==
  IF validate_is_path(name) THEN PathBasename(resolve_filepath(name)) ELSE ReSubNonAlnum(name)

\* (mutant) only the last path part is kept
DockerTag_last_part(model_id) == StrJoin(LastN(FsPathParts(model_id), 1), ":")

\* the branch for running inside a bento: the last two path parts joined by ":"
DockerTag(model_id) == StrJoin(LastN(FsPathParts(model_id), 2), ":")

\* the tag of an id that carries a revision
RevisionTag(tag_name, maybe_revision) == tag_name \o <<":">> \o maybe_revision[1]

\* (mutant) the hash of the path is taken whatever version is given
LocalVersion_always_hash(model_version, path) == generate_hash_from_file(path)

\* the version of a local path: the given version, else the hash of the path
LocalVersion(model_version, path) ==
  first_not_none_str(<<model_version>>, generate_hash_from_file(path))

\* the revision a remote config is fetched at
FetchRevision(model_version) == first_not_none_str(<<model_version>>, RevMain)

\* The body of LLM._generate_tag_str under @apply(str.lower), without the lru_cache:
\* exc is the exception raised ("" when it returns), tag the returned string,
\* resolved the number of remote config fetches and local-path hashings performed.
GenerateTagBody(cls, model_id, model_version) ==
  LET impl == _infer_implementation_from_name(cls)
      model_name == normalise_model_name(model_id)
      pieces == StrSplit(model_id, ":")
      bare_id == pieces[1]
      maybe_revision == Tail(pieces)
      tag_name == impl \o <<"-">> \o model_name
      fetched == HubFetch(bare_id, FetchRevision(model_version))
  IN IF env.in_docker
     THEN [exc |-> "", tag |-> StrLower(DockerTag(model_id)), resolved |-> 0]
     ELSE IF Len(maybe_revision) > 0
     THEN [exc |-> "", tag |-> StrLower(RevisionTag(tag_name, maybe_revision)), resolved |-> 0]
     ELSE IF env.use_local_latest
     THEN LET taglike == IF model_version # NoneStr THEN tag_name \o <<":">> \o model_version ELSE tag_name
          IN IF Len(StoreMatches(taglike)) = 0
             THEN [exc |-> "NotFound", tag |-> <<>>, resolved |-> 0]
             ELSE [exc |-> "", tag |-> StrLower(StoreGet(taglike)), resolved |-> 0]
     ELSE IF validate_is_path(bare_id)
     THEN IF HashRaises(bare_id)
          THEN [exc |-> "FileNotFoundError", tag |-> <<>>, resolved |-> 1]
          ELSE [exc |-> "",
                tag |-> StrLower(tag_name \o <<":">> \o LocalVersion(model_version, bare_id)),
                resolved |-> 1]
     ELSE IF fetched = HubError THEN [exc |-> "OSError", tag |-> <<>>, resolved |-> 1]
     ELSE IF fetched = NoneStr THEN [exc |-> "ValueError", tag |-> <<>>, resolved |-> 1]
     ELSE [exc |-> "", tag |-> StrLower(tag_name \o <<":">> \o fetched), resolved |-> 1]

\* (mutant) the body is run on every call, the cache is never consulted
_generate_tag_str_uncached(cls, model_id, model_version) ==
  LET Miss(r) == [exc |-> r.exc, tag |-> r.tag, resolved |-> r.resolved, hit |-> FALSE]
  IN Miss(GenerateTagBody(cls, model_id, model_version))

\* functools.lru_cache around the body: a hit returns the cached string and resolves nothing
_generate_tag_str(cls, model_id, model_version) ==
  LET key == <<cls, model_id, model_version>>
      Miss(r) == [exc |-> r.exc, tag |-> r.tag, resolved |-> r.resolved, hit |-> FALSE]
  IN IF key \in DOMAIN tagCache
     THEN [exc |-> "", tag |-> tagCache[key], resolved |-> 0, hit |-> TRUE]
     ELSE Miss(GenerateTagBody(cls, model_id, model_version))

\* the cache after that call: a returned string is stored, an exception is not
TagCacheAfter(cls, model_id, model_version) ==
  LET key == <<cls, model_id, model_version>>
      r == GenerateTagBody(cls, model_id, model_version)
  IN IF key \notin DOMAIN tagCache /\ r.exc = ""
     THEN [k \in DOMAIN tagCache \cup {key} |-> IF k = key THEN r.tag ELSE tagCache[k]]
     ELSE tagCache

\* bentoml.Tag.from_taglike of a string: name and version around the one ":"
from_taglike(tag_str) ==
  LET pieces == StrSplit(tag_str, ":")
  IN IF Len(pieces) = 1 THEN [exc |-> "", name |-> StrLower(pieces[1]), version |-> NoneStr]
     ELSE IF Len(pieces) = 2
     THEN [exc |-> "", name |-> StrLower(pieces[1]), version |-> StrLower(pieces[2])]
     ELSE [exc |-> "BentoMLException", name |-> <<>>, version |-> NoneStr]

\* LLM.generate_tag: the record of one invocation
generate_tag(cls, model_id, model_version) ==
  LET Tagged(r, tg) ==
        [key |-> <<cls, model_id, model_version>>,
         exc |-> IF r.exc # "" THEN r.exc ELSE tg.exc,
         tag |-> r.tag,
         name |-> IF r.exc = "" THEN tg.name ELSE <<>>,
         version |-> IF r.exc = "" THEN tg.version ELSE NoneStr,
         resolved |-> r.resolved,
         hit |-> r.hit]
      Parsed(r) == Tagged(r, from_taglike(r.tag))
  IN Parsed(_generate_tag_str(cls, model_id, model_version))

NoTagCall == [key |-> <<NoneStr, NoneStr, NoneStr>>, exc |-> "none", tag |-> <<>>, name |-> <<>>,
              version |-> NoneStr, resolved |-> 0, hit |-> FALSE]

(***************************************************************************)
(* Adapter maps.                                                           *)
(***************************************************************************)
\* an adapter map is a sequence of <<adapter id, name>> in the dict's order
NoneMap == << <<"None", "None">> >>
\* an adapters mapping is a sequence of [type, adapters] in the dict's order
NoneMapping == << [type |-> "None", adapters |-> <<>>] >>

\* adapter_config.json of the adapters that have one (on disk or on the hub)
AdapterIds == {"a", "b", "c"}
AdapterConfig(adapter_id) ==
  CASE adapter_id = "a" -> [peft_type |-> "LORA", r |-> 1]
    [] adapter_id = "b" -> [peft_type |-> "LORA", r |-> 2]
    [] OTHER -> [peft_type |-> "ADALORA", r |-> 3]
PeftTypeLower(tp) == IF tp = "LORA" THEN "lora" ELSE IF tp = "ADALORA" THEN "adalora" ELSE tp

\* resolved[_peft_type] += (tuple,), a new key going last
AddAdapterTuple(resolved, tp, tuple) ==
  IF \E i \in 1..Len(resolved) : resolved[i].type = tp
  THEN [i \in 1..Len(resolved) |->
          IF resolved[i].type = tp
          THEN [type |-> tp, adapters |-> Append(resolved[i].adapters, tuple)]
          ELSE resolved[i]]
  ELSE Append(resolved, [type |-> tp, adapters |-> <<tuple>>])

\* the loop of resolve_peft_config_type over the items that remain
RECURSIVE ResolvePeftLoop(_, _, _, _)
ResolvePeftLoop(items, resolved, _has_set_default, fetches) ==
  IF Len(items) = 0 THEN [exc |-> "", resolved |-> resolved, fetches |-> fetches]
  ELSE LET path_or_adapter_id == items[1][1]
           name == items[1][2]
           resolve_name == IF name = None THEN "default" ELSE name
           resolved_config == AdapterConfig(path_or_adapter_id)
       IN IF name = None /\ _has_set_default
          THEN [exc |-> "ValueError:default", resolved |-> resolved, fetches |-> fetches]
          ELSE IF path_or_adapter_id \notin AdapterIds
          THEN [exc |-> "ValueError:config", resolved |-> resolved, fetches |-> fetches + 1]
          ELSE ResolvePeftLoop(Tail(items),
                 AddAdapterTuple(resolved, PeftTypeLower(resolved_config.peft_type),
                   [adapter_id |-> path_or_adapter_id, name |-> resolve_name, config |-> resolved_config]),
                 _has_set_default \/ name = None, fetches + 1)

resolve_peft_config_type(adapter_map) == ResolvePeftLoop(adapter_map, <<>>, FALSE, 0)

(***************************************************************************)
(* Construction of a handle.                                               *)
(***************************************************************************)
NoHandle == [constructed |-> FALSE]

\* cfg_cls.__openllm_default_id__ and cfg_cls.__openllm_runtime__
DefaultId == IdRemote
DefaultRuntime == "transformers"

\* infer_quantisation_config: the quantisation config of a quantize method
infer_quantisation_config(quantize) ==
  IF quantize = "gptq" THEN "autogptq.BaseQuantizeConfig" ELSE "transformers.BitsAndBytesConfig"

\* Python truthiness of an optional plain value and of an optional map
Truthy(v) == v # None /\ v # ""
TruthyMap(m) == m # NoneMap /\ Len(m) > 0
TruthyMapping(m) == m # NoneMapping /\ Len(m) > 0

\* (mutant) bettertransformer is kept when adapters are given
DisabledByAdapters_never(_adapters_mapping, bettertransformer) == FALSE

\* "If lora is passed, the disable bettertransformer"
DisabledByAdapters(_adapters_mapping, bettertransformer) ==
  TruthyMapping(_adapters_mapping) /\ bettertransformer = "True"

\* LLM.__init__: the handle it leaves.  sub is the subtype: sub.post_init is the value
\* its llm_post_init sets self.bettertransformer to ("None" when it sets none) and
\* sub.config_bettertransformer is config["bettertransformer"].
LLM__init__(args, cls, model_id, bettertransformer, quantization_config, _adapters_mapping, _tag, _quantize_method, _runtime, _model_version, _serialisation_format, sub) ==
  LET after_post_init == sub.post_init
      after_set == IF bettertransformer THEN "True"
                   ELSE IF after_post_init # None THEN after_post_init
                   ELSE sub.config_bettertransformer
      final == IF DisabledByAdapters(_adapters_mapping, after_set) THEN "False" ELSE after_set
  IN [constructed |-> TRUE,
      cls |-> cls,
      implementation |-> _infer_implementation_from_name(cls),
      model_id |-> model_id,
      quantization_config |-> quantization_config,
      runtime |-> _runtime,
      tag |-> _tag,
      adapters_mapping |-> _adapters_mapping,
      model_version |-> _model_version,
      quantize_method |-> _quantize_method,
      serialisation_format |-> _serialisation_format,
      bettertransformer |-> final,
      \* _model_decls and the keys of _model_attrs, the arguments kept for load_model
      model_decls |-> args,
      model_attrs |-> IF _infer_implementation_from_name(cls) = <<"p", "t">>
                      THEN {"low_cpu_mem_usage", "quantization_config"} ELSE {}]

\* (mutant) quantize and quantization_config are never found in conflict
QuantizationConflict_unchecked(quantization_config, quantize) == FALSE

\* the mutual-exclusion checks of from_pretrained
QuantizationConflict(quantization_config, quantize) == Truthy(quantization_config) /\ Truthy(quantize)
AdapterConflict(adapter_map, adapter_id) == TruthyMap(adapter_map) /\ Truthy(adapter_id)

\* the serialisation format from_pretrained settles on
FinalSerialisation(cls, quantize, serialisation) ==
  IF quantize = "gptq" THEN "safetensors"
  ELSE IF _infer_implementation_from_name(cls) = <<"v", "l", "l", "m">> THEN "legacy"
  ELSE serialisation

\* adapter_id/adapter_name become a one-entry adapter map when no map is given
PromoteAdapterId(adapter_map, adapter_id, adapter_name) ==
  IF adapter_map = NoneMap /\ adapter_id # None
  THEN << <<adapter_id, adapter_name>> >> ELSE adapter_map

\* the bettertransformer argument from_pretrained passes to __init__
BettertransformerArg(bettertransformer, bettertransformer_value) ==
  StrUpper(first_not_none(<<bettertransformer, bettertransformer_value>>, None))
    \in ENV_VARS_TRUE_VALUES

\* (mutant) a failure of generate_tag is swallowed
TagFailure_swallowed(tagcall) == FALSE

\* the try block around generate_tag fails
TagFailure(tagcall) == tagcall.exc # "" \/ tagcall.version = NoneStr

FailedCall(error, model_id, tagcall, fetches) ==
  [error |-> error, error_model_id |-> model_id, handle |-> NoHandle, tagcall |-> tagcall,
   adapter_fetches |-> fetches]

\* LLM.from_pretrained.  a: the caller's arguments; e: the environment-sourced values
\* of cfg_cls.__openllm_env__ and is_peft_available(); sub: the subtype (see LLM__init__).
from_pretrained(cls, a, e, sub) ==
  LET id0 == first_not_none_str(<<a.model_id, e.model_id_value>>, DefaultId)
      model_id == IF id0 # NoneStr /\ validate_is_path(id0) THEN resolve_filepath(id0) ELSE id0
      quantize == first_not_none(<<a.quantize, e.quantize_value>>, None)
      quantization_config ==
        IF a.quantization_config = None /\ quantize # None
        THEN infer_quantisation_config(quantize) ELSE a.quantization_config
      serialisation == FinalSerialisation(cls, quantize, a.serialisation)
      adapter_map == PromoteAdapterId(a.adapter_map, a.adapter_id, a.adapter_name)
      bettertransformer == BettertransformerArg(a.bettertransformer, e.bettertransformer_value)
      _runtime == first_not_none(<<a.runtime, e.runtime_value>>, DefaultRuntime)
      \* from the try block around generate_tag to the call of cls(...)
      Tagged(tagcall, peft) ==
        IF TagFailure(tagcall)
        THEN FailedCall("OpenLLMException", model_id, tagcall, 0)
        ELSE IF adapter_map # NoneMap /\ peft.exc # ""
        THEN FailedCall(peft.exc, NoneStr, tagcall, peft.fetches)
        ELSE [error |-> "", error_model_id |-> NoneStr,
              handle |-> LLM__init__(a.args, cls, model_id, bettertransformer, quantization_config,
                           IF adapter_map # NoneMap THEN peft.resolved ELSE NoneMapping,
                           tagcall.tag, quantize, _runtime, tagcall.version, serialisation, sub),
              tagcall |-> tagcall,
              adapter_fetches |-> IF adapter_map # NoneMap THEN peft.fetches ELSE 0]
  IN IF id0 = NoneStr THEN FailedCall("RuntimeError:model_id", NoneStr, NoTagCall, 0)
     ELSE IF QuantizationConflict(a.quantization_config, quantize)
     THEN FailedCall("ValueError:quantization", NoneStr, NoTagCall, 0)
     ELSE IF AdapterConflict(a.adapter_map, a.adapter_id)
     THEN FailedCall("ValueError:adapter", NoneStr, NoTagCall, 0)
     ELSE IF adapter_map # NoneMap /\ ~e.peft_available
     THEN FailedCall("RuntimeError:peft", NoneStr, NoTagCall, 0)
     ELSE Tagged(generate_tag(cls, model_id, a.model_version),
                 resolve_peft_config_type(adapter_map))

(***************************************************************************)
(* The Runner factory.                                                     *)
(***************************************************************************)
\* The arguments Runner hands to from_pretrained (through create_runner and for_model).
\* given: what the caller passed, None for an option left out; with_config: llm_config
\* is not None; serialization_env: os.getenv("OPENLLM_SERIALIZATION").
RunnerAttrs(given, with_config, e, serialization_env) ==
  IF with_config
  THEN [given EXCEPT !.model_id = e.model_id_value,
                     !.bettertransformer = e.bettertransformer_value,
                     !.quantize = e.quantize_value,
                     !.runtime = e.runtime_value,
                     !.serialisation = first_not_none(<<serialization_env, given.serialisation>>, "safetensors")]
  ELSE [given EXCEPT !.serialisation = first_not_none(<<given.serialisation>>, "safetensors")]

(***************************************************************************)
(* Inputs.                                                                 *)
(***************************************************************************)
DefaultArgs ==
  [model_id |-> NoneStr, model_version |-> NoneStr, runtime |-> None, quantize |-> None,
   bettertransformer |-> None, adapter_id |-> None, adapter_name |-> None,
   adapter_map |-> NoneMap, quantization_config |-> None, serialisation |-> "safetensors",
   args |-> <<>>]
EnvUnset ==
  [model_id_value |-> NoneStr, quantize_value |-> None, bettertransformer_value |-> None,
   runtime_value |-> None, peft_available |-> TRUE]
SubPlain == [post_init |-> None, config_bettertransformer |-> "False"]

NoOp ==
  [op |-> "none", cls |-> NoneStr, given |-> DefaultArgs, with_config |-> FALSE, error |-> "",
   error_model_id |-> NoneStr, constructed |-> FALSE, tagcall |-> NoTagCall, adapter_fetches |-> 0,
   e |-> EnvUnset, sub |-> SubPlain, serialization_env |-> None]

(***************************************************************************)
(* Initial state and actions.                                              *)
(***************************************************************************)
(***************************************************************************)
(* The lazily filled slots of a handle and the subtypes.                   *)
(***************************************************************************)
\* the objects a slot can hold: id 0 stands for None; peft: the object is a peft.PeftModel;
\* pretrained: it is a transformers.PreTrainedModel; adapters: the adapter names it carries
NoObject == [id |-> 0, peft |-> FALSE, pretrained |-> FALSE, adapters |-> {}]
\* __llm_adapter_map__ = None
NoneCache == <<[type |-> "None", entries |-> <<>>]>>
\* the slots as _make_assignment_script leaves them: every one None
\* active is the active adapter of the peft model in the model slot
EmptySlots == [model |-> NoObject, tokenizer |-> 0, adapter_map |-> NoneCache, active |-> None]
\* a platform with a device, a subtype that needs none and whose load_model returns a
\* transformers.PreTrainedModel
DefaultPlatform ==
  [requires_gpu |-> FALSE, device_count |-> 1, load_raises |-> FALSE, pretrained |-> TRUE,
   custom_hooks |-> FALSE]
\* seen: the object the last .model access returned, NoObject once apply_adapter ran
NoCall ==
  [op |-> "none", args |-> <<>>, calls |-> <<>>, error |-> "", result |-> NoObject,
   seen |-> NoObject]

\* LLMInterface and LLM.  A class is its parent, the methods its body defines, its own
\* __dict__ (method name -> the function object, named by the class whose body defined
\* it) and its __llm_supports_<fn>__ attributes
InterfaceMethods == {"generate", "generate_one", "generate_iterator", "embeddings"}
ClsInterface == <<"LLMInterface">>
ClsLLM == <<"LLM">>
NoFlags == [fn \in InterfaceMethods |-> FALSE]
BaseClasses ==
  [c \in {ClsInterface, ClsLLM} |->
     IF c = ClsInterface
     THEN [parent |-> ClsInterface, body |-> InterfaceMethods,
           dict |-> [fn \in InterfaceMethods |-> ClsInterface], flags |-> NoFlags]
     ELSE [parent |-> ClsInterface, body |-> {}, dict |-> [fn \in {} |-> ClsInterface],
           flags |-> NoFlags]]

\* getattr(cls, fn): the function object found first along the MRO
RECURSIVE ClassGetattr(_, _, _)
ClassGetattr(table, cls, fn) ==
  IF fn \in DOMAIN table[cls].dict THEN table[cls].dict[fn]
  ELSE ClassGetattr(table, table[cls].parent, fn)

\* (mutant) _update_docstring stores a wrapper of the function in the subtype
DocstringUpdated_wrapped(table, parent, body, name, fn) == name

\* _update_docstring: setattr(cls, fn, getattr(cls, fn)), the same function object
DocstringUpdated(table, parent, body, name, fn) ==
  IF fn \in DOMAIN body THEN body[fn] ELSE ClassGetattr(table, parent, fn)

\* LLM.__init_subclass__ with _make_assignment_script: the class the statement
\* "class name(parent)" leaves, its body defining the methods in overrides
__init_subclass__(table, name, parent, overrides) ==
  LET body == [fn \in overrides |-> name]
      found == [fn \in InterfaceMethods |->
                  IF fn \in overrides THEN name ELSE ClassGetattr(table, parent, fn)]
      updated == [fn \in InterfaceMethods |-> DocstringUpdated(table, parent, body, name, fn)]
  IN [parent |-> parent,
      body |-> overrides,
      dict |-> IF _infer_implementation_from_name(name) = <<"v", "l", "l", "m">>
               THEN [updated EXCEPT !["generate"] = name] ELSE updated,
      flags |-> [fn \in InterfaceMethods |-> found[fn] # ClsInterface]]

\* LLM.__getitem__ on an instance of cls: the __llm_<item>__ attribute
LLM__getitem__(table, cls, item) ==
  IF item \in {"supports_" \o fn : fn \in InterfaceMethods}
  THEN [error |-> "",
        result |-> table[cls].flags[CHOOSE fn \in InterfaceMethods : item = "supports_" \o fn]]
  ELSE [error |-> "KeyError", result |-> FALSE]

\* a call made to a hook of the subtype or to peft: the function and its arguments
Invoke(fn, args) == <<fn, args>>

\* the outcome of an operation on the handle: the exception raised ("" when it returns),
\* the calls it made to the subtype and to peft, what it returned, and the slots and the
\* object count it leaves
Outcome(error, calls, result, sl, hp) ==
  [error |-> error, calls |-> calls, result |-> result, slots |-> sl, heap |-> hp]

\* (mutant) the model is loaded whatever devices there are
GpuMissing_ignored(pf) == FALSE

\* the GPU check of LLM.model
GpuMissing(pf) == pf.requires_gpu /\ pf.device_count < 1

\* (mutant) load_model is invoked on every access
SlotEmpty_always(obj) == TRUE

\* a slot is None
SlotEmpty(obj) == obj = NoObject

\* what load_model returns under _wrapped_load_model: a vllm.LLMEngine for a vllm subtype,
\* else what the subtype's load_model builds
LoadedModel(h, pf, hp) ==
  [id |-> hp + 1, peft |-> FALSE,
   pretrained |-> pf.pretrained /\ h.implementation # <<"v", "l", "l", "m">>, adapters |-> {}]

\* the positional arguments _wrapped_load_model hands on, called with decls
PassedDecls(model_decls, decls) == model_decls \o decls

\* _wrapped_load_model called as self.load_model(*decls, **attrs): the arguments the
\* subtype's load_model is called with (a vllm engine is built from engine arguments,
\* the subtype's load_model is not called)
_wrapped_load_model(h, decls, attrs) ==
  IF h.implementation = <<"v", "l", "l", "m">> THEN <<>>
  ELSE <<PassedDecls(h.model_decls, decls), h.model_attrs \cup attrs>>

\* LLM.model (property)
ModelProperty(h, sl, pf, hp) ==
  LET Load(call) ==
        IF pf.load_raises THEN Outcome("LoadError", <<call>>, NoObject, sl, hp)
        ELSE Outcome("", <<call>>, LoadedModel(h, pf, hp),
                     [sl EXCEPT !.model = LoadedModel(h, pf, hp)], hp + 1)
  IN IF GpuMissing(pf) THEN Outcome("GpuNotAvailableError", <<>>, NoObject, sl, hp)
     ELSE IF SlotEmpty(sl.model)
     THEN Load(Invoke("load_model", _wrapped_load_model(h, h.model_decls, h.model_attrs)))
     ELSE Outcome("", <<>>, sl.model, sl, hp)

\* LLM.tokenizer (property): the result is the tokenizer's object id
TokenizerProperty(h, sl, pf, hp) ==
  IF sl.tokenizer = 0
  THEN Outcome("", <<Invoke("load_tokenizer", <<>>)>>, hp + 1,
               [sl EXCEPT !.tokenizer = hp + 1], hp + 1)
  ELSE Outcome("", <<>>, sl.tokenizer, sl, hp)

(***************************************************************************)
(* Adapters of a handle.  A dict is a sequence of entries in insertion     *)
(* order; a resolved mapping is a sequence of [type, entries].             *)
(***************************************************************************)
DictHas(entries, name) == \E i \in 1..Len(entries) : entries[i].name = name
DictGet(entries, name) == entries[CHOOSE i \in 1..Len(entries) : entries[i].name = name]
\* d[name] = value: an existing key keeps its place
DictSet(entries, value) ==
  IF DictHas(entries, value.name)
  THEN [i \in 1..Len(entries) |-> IF entries[i].name = value.name THEN value ELSE entries[i]]
  ELSE Append(entries, value)
\* d.pop(name)
DictPop(entries, name) == SelectSeq(entries, LAMBDA x : x.name # name)
DictKeys(entries) == [i \in 1..Len(entries) |-> entries[i].name]

HasFamily(mapping, tp) == \E i \in 1..Len(mapping) : mapping[i].type = tp
Family(mapping, tp) == mapping[CHOOSE i \in 1..Len(mapping) : mapping[i].type = tp].entries
SetFamily(mapping, tp, entries) ==
  [i \in 1..Len(mapping) |->
     IF mapping[i].type = tp THEN [type |-> tp, entries |-> entries] ELSE mapping[i]]

\* the peft config of one adapter: built from the default strategy of its family for the
\* name "default", from the adapter's own config otherwise
PeftConfigOf(adapter, name, inference_mode) ==
  [config |-> adapter.config, inference_mode |-> inference_mode, strategy |-> name = "default"]

\* (mutant) a second adapter without a name is taken as "default" again
SecondNone_accepted(name, _converted_first_none) == FALSE

\* the adapter has no name although one adapter was converted to "default" already
SecondNone(name, _converted_first_none) == name = None /\ _converted_first_none

\* the two loops of _transpose_adapter_mapping, over the families that remain (fams) and
\* the adapters that remain of the first of them (adapters)
RECURSIVE TransposeLoop(_, _, _, _, _)
TransposeLoop(fams, adapters, adapter_map, _converted_first_none, inference_mode) ==
  IF Len(fams) = 0 THEN [exc |-> "", mapping |-> adapter_map]
  ELSE IF Len(adapters) = 0
  THEN IF Len(fams) = 1 THEN [exc |-> "", mapping |-> adapter_map]
       ELSE TransposeLoop(Tail(fams), fams[2].adapters, adapter_map, _converted_first_none,
                          inference_mode)
  ELSE IF SecondNone(adapters[1].name, _converted_first_none)
  THEN [exc |-> "ValueError:default", mapping |-> adapter_map]
  ELSE LET name == IF adapters[1].name = None THEN "default" ELSE adapters[1].name
           entry == [name |-> name,
                     peft_config |-> PeftConfigOf(adapters[1], name, inference_mode),
                     adapter_id |-> adapters[1].adapter_id]
       IN TransposeLoop(fams, Tail(adapters),
            SetFamily(adapter_map, fams[1].type, DictSet(Family(adapter_map, fams[1].type), entry)),
            _converted_first_none \/ adapters[1].name = None, inference_mode)

\* (mutant) the resolved mapping is cached even when use_cache is False
CacheWritten_always(cache, use_cache) == cache = NoneCache

\* the resolved mapping is stored in __llm_adapter_map__
CacheWritten(cache, use_cache) == cache = NoneCache /\ use_cache

\* LLM._transpose_adapter_mapping: exc, the mapping returned, the cache it leaves, and
\* aliased: the mapping returned is the very dict held in __llm_adapter_map__
_transpose_adapter_mapping(h, cache, inference_mode, use_cache) ==
  LET Done(r) ==
        IF r.exc # "" THEN [exc |-> r.exc, mapping |-> <<>>, cache |-> cache, aliased |-> FALSE]
        ELSE [exc |-> "", mapping |-> r.mapping,
              cache |-> IF CacheWritten(cache, use_cache) THEN r.mapping ELSE cache,
              aliased |-> CacheWritten(cache, use_cache)]
      am == h.adapters_mapping
  IN IF am = NoneMapping
     THEN [exc |-> "ValueError:mapping", mapping |-> <<>>, cache |-> cache, aliased |-> FALSE]
     ELSE IF use_cache /\ cache # NoneCache
     THEN [exc |-> "", mapping |-> cache, cache |-> cache, aliased |-> TRUE]
     ELSE Done(TransposeLoop(am, IF Len(am) > 0 THEN am[1].adapters ELSE <<>>,
                             [i \in 1..Len(am) |-> [type |-> am[i].type, entries |-> <<>>]],
                             FALSE, inference_mode))

\* a call made to peft about one adapter
PeftCall(fn, arg) == Invoke(fn, <<arg>>)

\* (mutant) the default adapter is read from the mapping and left in it
WithoutDefault_kept(adapter_mapping) == adapter_mapping

\* adapter_mapping.pop("default"): the dict that remains
WithoutDefault(adapter_mapping) == DictPop(adapter_mapping, "default")

\* LLM._wrap_default_peft_model: exc, the wrapping model, and the adapter_mapping dict as
\* the pop leaves it.  Whichever of peft.PeftModel(...), peft_class.from_pretrained(...)
\* and peft_class(...) builds it, the result is one new peft.PeftModel around the base.
_wrap_default_peft_model(model, adapter_mapping, hp) ==
  IF model = NoObject
  THEN [exc |-> "ValueError:not_loaded", model |-> model, rest |-> adapter_mapping, calls |-> <<>>]
  ELSE IF model.peft
  THEN [exc |-> "", model |-> model, rest |-> adapter_mapping, calls |-> <<>>]
  ELSE IF ~model.pretrained
  THEN [exc |-> "ValueError:not_pytorch", model |-> model, rest |-> adapter_mapping, calls |-> <<>>]
  ELSE IF ~DictHas(adapter_mapping, "default")
  THEN [exc |-> "ValueError:no_default", model |-> model, rest |-> adapter_mapping, calls |-> <<>>]
  ELSE [exc |-> "",
        model |-> [id |-> hp + 1, peft |-> TRUE, pretrained |-> FALSE, adapters |-> {"default"}],
        rest |-> WithoutDefault(adapter_mapping),
        calls |-> <<PeftCall("wrap", DictGet(adapter_mapping, "default").adapter_id)>>]

\* the adapters apply_adapter loads: None, "all" (<<"all">>) or a list of names
LoadNone == <<"None">>
LoadAll == <<"all">>
AdaptersToLoad(load_adapters, adapter_mapping) ==
  IF load_adapters = LoadNone THEN <<>>
  ELSE IF load_adapters = LoadAll THEN DictKeys(adapter_mapping) ELSE load_adapters

\* (mutant) an already wrapped model is wrapped again
AlreadyWrapped_ignored(model) == FALSE

\* the model in the slot is a peft.PeftModel
AlreadyWrapped(model) == model.peft

\* LLM.apply_adapter
apply_adapter(h, sl, hp, inference_mode, adapter_type, load_adapters, use_cache) ==
  LET \* from line 867 on: w is the result of _wrap_default_peft_model, cache the cache
      \* _transpose_adapter_mapping left, aliased: adapter_mapping is a dict of that cache
      Wrapped(w, cache, aliased) ==
        LET cache_after == IF aliased THEN SetFamily(cache, adapter_type, w.rest) ELSE cache
            added == [i \in 1..Len(w.rest) |-> PeftCall("add_adapter", w.rest[i].name)]
            to_load == AdaptersToLoad(load_adapters, w.rest)
            missing == \E i \in 1..Len(to_load) : ~DictHas(w.rest, to_load[i])
            known == IF missing
                     THEN SubSeq(to_load, 1,
                            (CHOOSE i \in 1..Len(to_load) :
                               /\ ~DictHas(w.rest, to_load[i])
                               /\ \A j \in 1..(i-1) : DictHas(w.rest, to_load[j])) - 1)
                     ELSE to_load
            loaded == [i \in 1..Len(known) |-> PeftCall("load_adapter", known[i])]
            model == [w.model EXCEPT !.adapters = @ \cup {w.rest[i].name : i \in 1..Len(w.rest)}]
        IN IF w.exc # ""
           THEN Outcome(w.exc, <<>>, NoObject, [sl EXCEPT !.adapter_map = cache_after], hp)
           ELSE IF Len(w.rest) = 0
           THEN Outcome("", w.calls, w.model,
                        [sl EXCEPT !.model = w.model, !.adapter_map = cache_after,
                                 !.active = "default"], hp + 1)
           ELSE Outcome(IF missing THEN "KeyError" ELSE "", w.calls \o added \o loaded,
                        IF missing THEN NoObject ELSE model,
                        [sl EXCEPT !.model = model, !.adapter_map = cache_after,
                                 !.active = "default"], hp + 1)
      Transposed(m) ==
        IF m.exc # "" THEN Outcome(m.exc, <<>>, NoObject, sl, hp)
        ELSE IF ~HasFamily(m.mapping, adapter_type)
        THEN Outcome("ValueError:adapter_type", <<>>, NoObject,
                     [sl EXCEPT !.adapter_map = m.cache], hp)
        ELSE Wrapped(_wrap_default_peft_model(sl.model, Family(m.mapping, adapter_type), hp),
                     m.cache, m.aliased)
  IN IF sl.model = NoObject THEN Outcome("ValueError:not_loaded", <<>>, NoObject, sl, hp)
     ELSE IF ~TruthyMapping(h.adapters_mapping) THEN Outcome("", <<>>, sl.model, sl, hp)
     ELSE IF AlreadyWrapped(sl.model) THEN Outcome("", <<>>, sl.model, sl, hp)
     ELSE Transposed(_transpose_adapter_mapping(h, sl.adapter_map, inference_mode, use_cache))

(***************************************************************************)
(* The generation pipeline.  Keyword arguments are a record of the two     *)
(* keys told apart, "None" for a key left out.                             *)
(***************************************************************************)
NoKwargs == [adapter_name |-> None, temperature |-> None]
KwSeq(kw) == <<kw.adapter_name, kw.temperature>>
\* the prompt a subtype's template makes of a prompt
Templated(prompt) == IF prompt = "p" THEN "tp" ELSE "tq"

\* sanitize_parameters: LLMInterface's returns (prompt, attrs, attrs); a subtype's own
\* (as MPT's) returns the templated prompt, the generation options it knows, and {}
sanitize_parameters(pf, prompt, attrs) ==
  IF pf.custom_hooks
  THEN [prompt |-> Templated(prompt), generate_kwargs |-> [NoKwargs EXCEPT !.temperature = attrs.temperature],
        postprocess_kwargs |-> NoKwargs]
  ELSE [prompt |-> prompt, generate_kwargs |-> attrs, postprocess_kwargs |-> attrs]

\* the subtype's generate: it reads self.tokenizer and self.model (vllm_generate: the
\* model only) and returns what the model makes of the prompt and the options
generate(h, sl, pf, hp, prompt, attrs) ==
  LET call == Invoke("generate", <<prompt>> \o KwSeq(attrs))
      WithModel(tk, m) ==
        Outcome(m.error, <<call>> \o tk.calls \o m.calls,
                IF m.error = "" THEN <<"out", prompt>> \o KwSeq(attrs) ELSE <<>>,
                m.slots, m.heap)
      WithTokenizer(tk) == WithModel(tk, ModelProperty(h, tk.slots, pf, tk.heap))
  IN IF h.implementation = <<"v", "l", "l", "m">>
     THEN WithTokenizer(Outcome("", <<>>, 0, sl, hp))
     ELSE WithTokenizer(TokenizerProperty(h, sl, pf, hp))

\* postprocess_generate: LLMInterface's echoes the result; a subtype's own (as MPT's and
\* the vllm one) picks the first text out of it
postprocess_generate(h, pf, prompt, generation_result, attrs) ==
  IF pf.custom_hooks \/ h.implementation = <<"v", "l", "l", "m">>
  THEN <<"first">> \o generation_result ELSE generation_result

\* (mutant) the raw generation result is returned, postprocess_generate is skipped
Postprocessed_skipped(h, pf, prompt, g, attrs) ==
  Outcome(g.error, g.calls, g.result, g.slots, g.heap)

\* the last stage: g is the outcome of the generate stage
Postprocessed(h, pf, prompt, g, attrs) ==
  IF g.error # "" THEN g
  ELSE Outcome("", g.calls \o <<Invoke("postprocess_generate", <<prompt>> \o g.result \o KwSeq(attrs))>>,
               postprocess_generate(h, pf, prompt, g.result, attrs), g.slots, g.heap)

\* LLM.__call__ (and LLM.predict, which calls it)
LLM__call__(h, sl, pf, hp, prompt, attrs) ==
  LET Staged(sp, g) ==
        Postprocessed(h, pf, sp.prompt,
          Outcome(g.error, <<Invoke("sanitize_parameters", <<prompt>> \o KwSeq(attrs))>> \o g.calls,
                  g.result, g.slots, g.heap),
          sp.postprocess_kwargs)
      Sanitized(sp) == Staged(sp, generate(h, sl, pf, hp, sp.prompt, sp.generate_kwargs))
  IN Sanitized(sanitize_parameters(pf, prompt, attrs))

\* LLM.save_pretrained under _wrapped_save_pretrained: a pt model under bettertransformer
\* is replaced by what reverse_bettertransformer() returns of it, a new transformers
\* model (the base model, for a peft.PeftModel, which forwards the method to it)
save_pretrained(h, sl, hp) ==
  IF sl.model = NoObject THEN Outcome("RuntimeError:unloaded", <<>>, NoObject, sl, hp)
  ELSE IF h.bettertransformer = "True" /\ h.implementation = <<"p", "t">>
  THEN IF ~sl.model.pretrained /\ ~sl.model.peft
       THEN \* only a transformers.PreTrainedModel has reverse_bettertransformer
            Outcome("AttributeError", <<>>, NoObject, sl, hp)
       ELSE
       Outcome("", <<Invoke("reverse_bettertransformer", <<>>), Invoke("save_pretrained", <<>>)>>,
               NoObject,
               [sl EXCEPT !.model = [id |-> hp + 1, peft |-> FALSE, pretrained |-> TRUE,
                                     adapters |-> {}],
                          !.active = None],
               hp + 1)
  ELSE Outcome("", <<Invoke("save_pretrained", <<>>)>>, NoObject, sl, hp)

\* the model's set_adapter is called for a name other than "default"
NamesOtherAdapter(adapter_name) == adapter_name # "default"

\* _Runnable.set_adapter
set_adapter(h, sl, pf, hp, adapter_name) ==
  LET Checked(m) ==
        IF m.error # "" THEN m
        ELSE IF ~m.result.peft
        THEN Outcome("RuntimeError:not_peft", m.calls, NoObject, m.slots, m.heap)
        ELSE IF NamesOtherAdapter(adapter_name)
        THEN IF adapter_name \notin m.result.adapters
             THEN \* peft: "Adapter ... not found."
                  Outcome("ValueError:not_found", m.calls \o <<PeftCall("set_adapter", adapter_name)>>,
                          NoObject, m.slots, m.heap)
             ELSE Outcome("", m.calls \o <<PeftCall("set_adapter", adapter_name)>>, NoObject,
                          [m.slots EXCEPT !.active = adapter_name], m.heap)
        ELSE Outcome("", m.calls, NoObject, m.slots, m.heap)
  IN IF sl.adapter_map = NoneCache THEN Outcome("ValueError:no_adapters", <<>>, NoObject, sl, hp)
     ELSE Checked(ModelProperty(h, sl, pf, hp))

\* (mutant) the adapter is set on every request
AdapterRequested_always(attrs) == TRUE

\* attrs.pop("adapter_name", None) is not None
AdapterRequested(attrs) == attrs.adapter_name # None

\* _Runnable.generate and _Runnable.__call__: adapter_name is popped and set, then
\* the handle's generate runs with the options that remain
RunnableGenerate(h, sl, pf, hp, prompt, attrs) ==
  LET rest == [attrs EXCEPT !.adapter_name = None]
      After(a) ==
        IF a.error # "" THEN Outcome(a.error, a.calls, <<>>, a.slots, a.heap)
        ELSE LET Joined(g) == Outcome(g.error, a.calls \o g.calls, g.result, g.slots, g.heap)
             IN Joined(generate(h, a.slots, pf, a.heap, prompt, rest))
  IN IF AdapterRequested(attrs) THEN After(set_adapter(h, sl, pf, hp, attrs.adapter_name))
     ELSE After(Outcome("", <<>>, NoObject, sl, hp))

\* yield self.generate_iterator(...): what the runnable's generator yields, given the
\* iterator the handle returned
Yielded(iterator) == <<[iterator |-> iterator]>>

\* the handle's generate_iterator: LLMInterface's raises NotImplementedError, a
\* subtype's own returns an iterator over its partial results, parts
NotImplemented == <<"NotImplemented">>
generate_iterator(parts) ==
  IF parts = NotImplemented THEN [error |-> "NotImplementedError", iterator |-> <<>>]
  ELSE [error |-> "", iterator |-> [i \in 1..Len(parts) |-> [partial |-> parts[i]]]]

\* _Runnable.generate_iterator, iterated to its end: the items the caller receives
RunnableGenerateIterator(h, sl, pf, hp, prompt, attrs, parts) ==
  LET After(a) ==
        IF a.error # "" THEN Outcome(a.error, a.calls, <<>>, a.slots, a.heap)
        ELSE LET Iterated(it) ==
                   Outcome(it.error, a.calls \o <<Invoke("generate_iterator", <<prompt>>)>>,
                           IF it.error = "" THEN Yielded(it.iterator) ELSE <<>>, a.slots, a.heap)
             IN Iterated(generate_iterator(parts))
  IN IF AdapterRequested(attrs) THEN After(set_adapter(h, sl, pf, hp, attrs.adapter_name))
     ELSE After(Outcome("", <<>>, NoObject, sl, hp))

\* _wrapped_generate_run, the runner's __call__
_wrapped_generate_run(h, sl, pf, hp, prompt, attrs) ==
  LET Staged(sp, g) ==
        Postprocessed(h, pf, sp.prompt,
          Outcome(g.error, <<Invoke("sanitize_parameters", <<prompt>> \o KwSeq(attrs))>> \o g.calls,
                  g.result, g.slots, g.heap),
          sp.postprocess_kwargs)
      Sanitized(sp) == Staged(sp, RunnableGenerate(h, sl, pf, hp, sp.prompt, sp.generate_kwargs))
  IN Sanitized(sanitize_parameters(pf, prompt, attrs))

\* (mutant) the runnable applies no adapter when it is constructed
AdaptersPresent_ignored(h) == FALSE

\* self.adapters_mapping is not None
AdaptersPresent(h) == h.adapters_mapping # NoneMapping

\* _Runnable.__init__
Runnable__init__(h, sl, pf, hp) ==
  LET Loaded(m) ==
        IF m.error # "" THEN m
        ELSE IF AdaptersPresent(h)
        THEN LET Applied(a) == Outcome(a.error, m.calls \o a.calls, NoObject, a.slots, a.heap)
             IN Applied(apply_adapter(h, m.slots, m.heap, TRUE, "lora", LoadAll, TRUE))
        ELSE Outcome("", m.calls, NoObject, m.slots, m.heap)
  IN Loaded(ModelProperty(h, sl, pf, hp))

\* the threads that call into one handle, none of them in a call, and an engine without
\* requests
Threads == {1, 2}
IdleProc == [pc |-> "idle"]
NoProcs == [t \in Threads |-> IdleProc]
NoEngine == [t \in Threads |-> 0]

HandleInit ==
  /\ engine = NoEngine
  /\ procs = NoProcs
  /\ slots = EmptySlots
  /\ platform = DefaultPlatform
  /\ heap = 0
  /\ lastCall = NoCall
  /\ classTable = BaseClasses
  /\ runnable = FALSE

Init ==
  /\ HandleInit
  /\ env \in [in_docker : BOOLEAN, use_local_latest : BOOLEAN]
  /\ hubHead \in [HubRepos -> HubOutcomes]
  /\ mtime = [p \in {IdLocal} |-> 1]
  /\ tagCache = <<>>
  /\ llm = NoHandle
  /\ lastOp = NoOp
  /\ nCalls = 0

\* a call of cls.generate_tag(model_id, model_version)
GenerateTagCall(cls, model_id, model_version) ==
  /\ nCalls < MaxCalls
  /\ nCalls' = nCalls + 1
  /\ tagCache' = TagCacheAfter(cls, model_id, model_version)
  /\ lastOp' = [NoOp EXCEPT !.op = "generate_tag", !.cls = cls,
                            !.tagcall = generate_tag(cls, model_id, model_version)]
  /\ UNCHANGED <<env, hubHead, mtime, llm>>
  /\ UNCHANGED hvars

\* (mutant) __init__ loads the model eagerly
InitCalls_eager_load(constructed) ==
  IF constructed THEN << <<"llm_post_init", <<>>>>, <<"load_model", <<>>>> >> ELSE <<>>

\* the subtype hooks LLM.__init__ invokes: llm_post_init only
InitCalls(constructed) == IF constructed THEN << <<"llm_post_init", <<>>>> >> ELSE <<>>

\* the state a construction leaves: r is the result of from_pretrained
Constructed(op, cls, given, with_config, e, sub, serialization_env, r) ==
  /\ nCalls' = nCalls + 1
  /\ tagCache' = IF r.tagcall # NoTagCall
                 THEN TagCacheAfter(r.tagcall.key[1], r.tagcall.key[2], r.tagcall.key[3])
                 ELSE tagCache
  /\ llm' = IF r.error = "" THEN r.handle ELSE llm
  /\ lastOp' = [op |-> op, cls |-> cls, given |-> given, with_config |-> with_config,
                error |-> r.error, error_model_id |-> r.error_model_id,
                constructed |-> r.error = "", tagcall |-> r.tagcall,
                adapter_fetches |-> r.adapter_fetches,
                e |-> e, sub |-> sub, serialization_env |-> serialization_env]
  \* a new handle starts with every slot None; constructing it calls no load_model
  /\ slots' = IF r.error = "" THEN EmptySlots ELSE slots
  /\ lastCall' = [NoCall EXCEPT !.op = op, !.calls = InitCalls(r.error = ""),
                                !.error = r.error]
  /\ runnable' = (r.error # "" /\ runnable)
  /\ UNCHANGED <<env, hubHead, mtime, platform, heap, classTable, engine, procs>>

\* a call of cls.from_pretrained(**a); limit bounds the calls of a behaviour
FromPretrainedCall(cls, a, e, sub, limit) ==
  /\ nCalls < limit
  /\ Constructed("from_pretrained", cls, a, FALSE, e, sub, None, from_pretrained(cls, a, e, sub))

\* a call of openllm.Runner(model_name, implementation=..., llm_config=..., **given)
RunnerCall(cls, given, with_config, e, serialization_env, sub) ==
  /\ nCalls < MaxMergeCalls
  /\ Constructed("Runner", cls, given, with_config, e, sub, serialization_env,
                 from_pretrained(cls, RunnerAttrs(given, with_config, e, serialization_env), e, sub))

\* the repository moves: a commit is pushed, or the service stops answering
RemotePush(repo, outcome) ==
  /\ hubHead[repo] # outcome
  /\ hubHead' = [hubHead EXCEPT ![repo] = outcome]
  /\ UNCHANGED <<env, mtime, tagCache, llm, lastOp, nCalls>>
  /\ UNCHANGED hvars

\* the local model directory is modified
TouchLocal(path) ==
  /\ mtime[path] < MaxMtime
  /\ mtime' = [mtime EXCEPT ![path] = @ + 1]
  /\ UNCHANGED <<env, hubHead, tagCache, llm, lastOp, nCalls>>
  /\ UNCHANGED hvars

(***************************************************************************)
(* Identity resolution: tags are generated and handles constructed while   *)
(* the repository and the file system change.                              *)
(***************************************************************************)
TagClasses == {ClsPt, ClsVllm}
IdentityArgs ==
  {[DefaultArgs EXCEPT !.model_id = id, !.model_version = v] :
     id \in ModelIds \cup {NoneStr}, v \in ModelVersions}

Next ==
  \/ \E cls \in TagClasses, id \in ModelIds, v \in ModelVersions : GenerateTagCall(cls, id, v)
  \/ \E a \in IdentityArgs : FromPretrainedCall(ClsPt, a, EnvUnset, SubPlain, MaxCalls)
  \/ \E repo \in HubRepos, outcome \in HubOutcomes : RemotePush(repo, outcome)
  \/ \E path \in DOMAIN mtime : TouchLocal(path)

Spec == Init /\ [][Next]_vars

(***************************************************************************)
(* Option merging: handles are constructed with every combination of the   *)
(* options, outside a bento, while the repository and the file system      *)
(* stay as they are.                                                       *)
(***************************************************************************)
InitMerge ==
  /\ HandleInit
  /\ env = [in_docker |-> FALSE, use_local_latest |-> FALSE]
  /\ hubHead = [r \in HubRepos |-> <<"c", "1">>]
  /\ mtime = [p \in {IdLocal} |-> 1]
  /\ tagCache = <<>>
  /\ llm = NoHandle
  /\ lastOp = NoOp
  /\ nCalls = 0

OptionalFlags == {None, "True", "False"}
AdapterMaps ==
  {NoneMap, <<>>, << <<"a", None>> >>, << <<"a", None>>, <<"b", "extra">> >>,
   << <<"a", None>>, <<"b", None>> >>, << <<"z", None>> >>}

\* quantisation and serialisation
QuantCalls ==
  \E cls \in Classes, quantize \in {None, "int8", "gptq"},
     quantization_config \in {None, "custom"}, serialisation \in {"safetensors", "legacy"},
     quantize_value \in {None, "int8"}, adapter_map \in {NoneMap, << <<"a", None>> >>} :
    FromPretrainedCall(cls,
      [DefaultArgs EXCEPT !.quantize = quantize, !.quantization_config = quantization_config,
                          !.serialisation = serialisation, !.adapter_map = adapter_map],
      [EnvUnset EXCEPT !.quantize_value = quantize_value], SubPlain, MaxMergeCalls)

\* adapters
AdapterCalls ==
  \E adapter_id \in {None, "a", "z"}, adapter_name \in {None, "extra"},
     adapter_map \in AdapterMaps, peft_available \in BOOLEAN :
    FromPretrainedCall(ClsPt,
      [DefaultArgs EXCEPT !.adapter_id = adapter_id, !.adapter_name = adapter_name,
                          !.adapter_map = adapter_map],
      [EnvUnset EXCEPT !.peft_available = peft_available], SubPlain, MaxMergeCalls)

\* bettertransformer
BettertransformerCalls ==
  \E bettertransformer \in OptionalFlags, bettertransformer_value \in OptionalFlags,
     post_init \in OptionalFlags, config_bettertransformer \in {"True", "False"},
     adapter_map \in {NoneMap, <<>>, << <<"a", None>> >>} :
    FromPretrainedCall(ClsPt,
      [DefaultArgs EXCEPT !.bettertransformer = bettertransformer, !.adapter_map = adapter_map],
      [EnvUnset EXCEPT !.bettertransformer_value = bettertransformer_value],
      [post_init |-> post_init, config_bettertransformer |-> config_bettertransformer],
      MaxMergeCalls)

\* the Runner factory, with and without llm_config
RunnerCalls ==
  \E with_config \in BOOLEAN, model_id \in {NoneStr, IdLocal}, quantize \in {None, "int8"},
     runtime \in {None, "ggml"}, bettertransformer \in {None, "True"},
     serialisation \in {None, "legacy"}, model_id_value \in {NoneStr, IdRemote},
     quantize_value \in {None, "gptq"}, runtime_value \in {None, "transformers"},
     serialization_env \in {None, "safetensors"} :
    RunnerCall(ClsPt,
      [DefaultArgs EXCEPT !.model_id = model_id, !.quantize = quantize, !.runtime = runtime,
                          !.bettertransformer = bettertransformer, !.serialisation = serialisation],
      with_config,
      [EnvUnset EXCEPT !.model_id_value = model_id_value, !.quantize_value = quantize_value,
                       !.runtime_value = runtime_value],
      serialization_env, SubPlain)

NextMerge == QuantCalls \/ AdapterCalls \/ BettertransformerCalls \/ RunnerCalls

SpecMerge == InitMerge /\ [][NextMerge]_vars

(***************************************************************************)
(* The life of one handle: it is constructed, then its model and tokenizer *)
(* are read, adapters applied, prompts run and a runner started on it.     *)
(***************************************************************************)
\* an operation on the constructed handle; out is its Outcome
HandleOp(op, args, out) ==
  /\ llm.constructed
  /\ nCalls < 1 + MaxHandleOps
  /\ nCalls' = nCalls + 1
  /\ slots' = out.slots
  /\ heap' = out.heap
  /\ lastCall' = [op |-> op, args |-> args, calls |-> out.calls, error |-> out.error,
                  result |-> out.result,
                  seen |-> IF op = "model" /\ out.error = "" THEN out.result
                           ELSE IF op \in {"apply_adapter", "_Runnable.__init__"} THEN NoObject
                           ELSE lastCall.seen]
  /\ UNCHANGED <<env, hubHead, mtime, tagCache, llm, lastOp, platform, classTable, engine, procs>>

ModelAccess ==
  /\ HandleOp("model", <<>>, ModelProperty(llm, slots, platform, heap))
  /\ UNCHANGED runnable

TokenizerAccess ==
  /\ HandleOp("tokenizer", <<>>, TokenizerProperty(llm, slots, platform, heap))
  /\ UNCHANGED runnable

TransposeCall(inference_mode, use_cache) ==
  /\ LET Kept(m) == Outcome(m.exc, <<>>, m.mapping, [slots EXCEPT !.adapter_map = m.cache], heap)
     IN HandleOp("_transpose_adapter_mapping", <<inference_mode, use_cache>>,
                 Kept(_transpose_adapter_mapping(llm, slots.adapter_map, inference_mode, use_cache)))
  /\ UNCHANGED runnable

ApplyAdapterCall(inference_mode, adapter_type, load_adapters, use_cache) ==
  /\ HandleOp("apply_adapter", <<inference_mode, adapter_type, load_adapters, use_cache>>,
              apply_adapter(llm, slots, heap, inference_mode, adapter_type, load_adapters, use_cache))
  /\ UNCHANGED runnable

SavePretrainedCall ==
  /\ HandleOp("save_pretrained", <<>>, save_pretrained(llm, slots, heap))
  /\ UNCHANGED runnable

\* llm(prompt, **attrs) and llm.predict(prompt, **attrs)
PromptCall(op, prompt, attrs) ==
  /\ HandleOp(op, <<prompt, attrs>>, LLM__call__(llm, slots, platform, heap, prompt, attrs))
  /\ UNCHANGED runnable

\* the runner starts: bentoml constructs the runnable
RunnableInit ==
  /\ ~runnable
  /\ LET Started(out) == HandleOp("_Runnable.__init__", <<>>, out) /\ runnable' = (out.error = "")
     IN Started(Runnable__init__(llm, slots, platform, heap))

\* requests served by the started runner
RunnableSetAdapter(adapter_name) ==
  /\ runnable
  /\ HandleOp("set_adapter", <<adapter_name>>, set_adapter(llm, slots, platform, heap, adapter_name))
  /\ UNCHANGED runnable

\* runner.generate.run(prompt, **attrs): _Runnable.generate
RunnableGenerateCall(prompt, attrs) ==
  /\ runnable
  /\ HandleOp("runnable.generate", <<prompt, attrs>>,
              RunnableGenerate(llm, slots, platform, heap, prompt, attrs))
  /\ UNCHANGED runnable

\* runner.generate_iterator.run(prompt, **attrs), iterated: _Runnable.generate_iterator on
\* a subtype whose generate_iterator yields parts
RunnableGenerateIteratorCall(prompt, attrs, parts) ==
  /\ runnable
  /\ HandleOp("runnable.generate_iterator", <<prompt, attrs, parts>>,
              RunnableGenerateIterator(llm, slots, platform, heap, prompt, attrs, parts))
  /\ UNCHANGED runnable

RunnerPromptCall(prompt, attrs) ==
  /\ runnable
  /\ HandleOp("runner.__call__", <<prompt, attrs>>,
              _wrapped_generate_run(llm, slots, platform, heap, prompt, attrs))
  /\ UNCHANGED runnable

\* LLM(...) called directly with an adapters mapping (_adapters_mapping=...)
DirectInit(cls, _adapters_mapping) ==
  /\ nCalls = 0
  /\ nCalls' = 1
  /\ llm' = LLM__init__(<<>>, cls, DefaultId, FALSE, None, _adapters_mapping, <<"t", ":", "v">>, None, DefaultRuntime, <<"v">>, "safetensors", SubPlain)
  /\ lastOp' = [NoOp EXCEPT !.op = "__init__", !.cls = cls, !.constructed = TRUE]
  /\ slots' = EmptySlots
  /\ lastCall' = [NoCall EXCEPT !.op = "__init__", !.calls = InitCalls(TRUE)]
  /\ runnable' = FALSE
  /\ UNCHANGED <<env, hubHead, mtime, tagCache, platform, heap, classTable, engine, procs>>

Platforms ==
  {DefaultPlatform,
   [DefaultPlatform EXCEPT !.requires_gpu = TRUE],
   [DefaultPlatform EXCEPT !.requires_gpu = TRUE, !.device_count = 0],
   [DefaultPlatform EXCEPT !.load_raises = TRUE],
   [DefaultPlatform EXCEPT !.pretrained = FALSE],
   [DefaultPlatform EXCEPT !.custom_hooks = TRUE]}

InitHandle ==
  /\ env = [in_docker |-> FALSE, use_local_latest |-> FALSE]
  /\ hubHead = [r \in HubRepos |-> <<"c", "1">>]
  /\ mtime = [p \in {IdLocal} |-> 1]
  /\ tagCache = <<>>
  /\ llm = NoHandle
  /\ lastOp = NoOp
  /\ nCalls = 0
  /\ slots = EmptySlots
  /\ platform \in Platforms
  /\ heap = 0
  /\ lastCall = NoCall
  /\ classTable = BaseClasses
  /\ runnable = FALSE
  /\ engine = NoEngine
  /\ procs = NoProcs

\* the adapter maps handles are made from: none, empty, one default, a default and a
\* named one, a named one only, one of another family, a default in each of two
\* families, two defaults in one family, an adapter named "default" next to a nameless
\* one, two adapters of one name
HandleAdapterMaps ==
  {NoneMap, <<>>, << <<"a", None>> >>, << <<"a", None>>, <<"b", "extra">> >>,
   << <<"b", "extra">> >>, << <<"c", None>> >>, << <<"a", None>>, <<"c", None>> >>,
   << <<"a", None>>, <<"b", None>> >>, << <<"a", "default">>, <<"b", None>> >>,
   << <<"a", "extra">>, <<"b", "extra">> >>}
Adapter(adapter_id, name) == [adapter_id |-> adapter_id, name |-> name, config |-> AdapterConfig(adapter_id)]
RawMappings ==
  {<<[type |-> "lora", adapters |-> <<Adapter("a", None), Adapter("b", None)>>]>>,
   <<[type |-> "lora", adapters |-> <<Adapter("a", None)>>],
     [type |-> "adalora", adapters |-> <<Adapter("c", None)>>]>>,
   <<[type |-> "lora", adapters |-> <<Adapter("a", None), Adapter("b", "extra")>>]>>}
PromptKwargs ==
  {NoKwargs, [NoKwargs EXCEPT !.temperature = "0"], [NoKwargs EXCEPT !.adapter_name = "extra"],
   [NoKwargs EXCEPT !.adapter_name = "default"]}

\* the positional model arguments handles are made with
ModelDecls == {<<"x">>, <<"x", "y">>}

Construct ==
  \/ \E cls \in {ClsPt, ClsVllm}, adapter_map \in HandleAdapterMaps, bettertransformer \in {None, "True"} :
       FromPretrainedCall(cls, [DefaultArgs EXCEPT !.adapter_map = adapter_map,
                                                   !.bettertransformer = bettertransformer],
                          EnvUnset, SubPlain, 1)
  \/ \E cls \in {ClsPt, ClsVllm}, args \in ModelDecls :
       FromPretrainedCall(cls, [DefaultArgs EXCEPT !.args = args], EnvUnset, SubPlain, 1)
  \/ \E _adapters_mapping \in RawMappings : DirectInit(ClsPt, _adapters_mapping)

NextHandle ==
  \/ Construct
  \/ ModelAccess
  \/ TokenizerAccess
  \/ \E inference_mode \in BOOLEAN, use_cache \in BOOLEAN : TransposeCall(inference_mode, use_cache)
  \/ \E adapter_type \in {"lora", "adalora"}, use_cache \in BOOLEAN,
        load_adapters \in {LoadNone, LoadAll, <<"extra">>, <<"default">>} :
       ApplyAdapterCall(TRUE, adapter_type, load_adapters, use_cache)
  \/ SavePretrainedCall
  \/ \E op \in {"__call__", "predict"}, attrs \in PromptKwargs : PromptCall(op, "p", attrs)
  \/ RunnableInit
  \/ \E adapter_name \in {"default", "extra"} : RunnableSetAdapter(adapter_name)
  \/ \E attrs \in PromptKwargs : RunnerPromptCall("p", attrs)
  \/ \E attrs \in PromptKwargs : RunnableGenerateCall("p", attrs)
  \/ \E attrs \in {NoKwargs, [NoKwargs EXCEPT !.adapter_name = "extra"]},
        parts \in {NotImplemented, <<>>, <<"t1">>, <<"t1", "t2">>} :
       RunnableGenerateIteratorCall("p", attrs, parts)

SpecHandle == InitHandle /\ [][NextHandle]_vars

(***************************************************************************)
(* Concurrent generate calls on a vllm handle.  Each call is a thread that *)
(* runs vllm_generate; the engine is shared.  A request is named by the    *)
(* thread that added it (the code names it by a fresh uuid).               *)
(***************************************************************************)
\* engine.has_unfinished_requests()
HasUnfinished(eng) == \E r \in DOMAIN eng : eng[r] > 0

\* engine.step(): one iteration for every unfinished request; it returns an output for
\* each of them, finished when that was the request's last iteration
EngineStep(eng) ==
  [engine |-> [r \in DOMAIN eng |-> IF eng[r] > 0 THEN eng[r] - 1 ELSE 0],
   outputs |-> {[request_id |-> r, finished |-> eng[r] = 1] : r \in {q \in DOMAIN eng : eng[q] > 0}}]

\* [r for r in self.model.step() if r.finished]: the requests of the finished outputs
FinishedOf(outputs) ==
  {r \in DOMAIN NoEngine : [request_id |-> r, finished |-> TRUE] \in outputs}

\* vllm_generate up to add_request: the request of the call needs tokens iterations
\* (late: the call has stepped the engine after its own request had finished)
VllmAddRequest(t, tokens) ==
  /\ llm.constructed /\ llm.implementation = <<"v", "l", "l", "m">>
  /\ slots.model # NoObject
  /\ procs[t].pc = "idle"
  /\ engine' = [engine EXCEPT ![t] = tokens]
  /\ procs' = [procs EXCEPT ![t] = [pc |-> "poll", request_id |-> t, outputs |-> {}, late |-> 0]]
  /\ UNCHANGED <<env, hubHead, mtime, tagCache, llm, lastOp, nCalls, slots, platform, heap,
                 lastCall, classTable, runnable>>

\* one turn of "while has_unfinished_requests(): outputs.extend(...step()...)"
VllmStep(t) ==
  /\ procs[t].pc = "poll"
  /\ HasUnfinished(engine)
  /\ engine' = EngineStep(engine).engine
  /\ procs' = [procs EXCEPT ![t].outputs = @ \cup FinishedOf(EngineStep(engine).outputs),
                            ![t].late = IF engine[procs[t].request_id] = 0 THEN 1 ELSE @]
  /\ UNCHANGED <<env, hubHead, mtime, tagCache, llm, lastOp, nCalls, slots, platform, heap,
                 lastCall, classTable, runnable>>

\* the loop ends and vllm_generate returns its outputs
VllmReturn(t) ==
  /\ procs[t].pc = "poll"
  /\ ~HasUnfinished(engine)
  /\ procs' = [procs EXCEPT ![t].pc = "done"]
  /\ UNCHANGED <<env, hubHead, mtime, tagCache, llm, lastOp, nCalls, slots, platform, heap,
                 lastCall, classTable, runnable, engine>>

NextEngine ==
  \/ FromPretrainedCall(ClsVllm, DefaultArgs, EnvUnset, SubPlain, 1)
  \/ ModelAccess
  \/ \E t \in Threads, tokens \in 1..MaxTokens : VllmAddRequest(t, tokens)
  \/ \E t \in Threads : VllmStep(t)
  \/ \E t \in Threads : VllmReturn(t)

SpecEngine == InitHandle /\ [][NextEngine]_vars

(***************************************************************************)
(* Concurrent apply_adapter calls on one handle.  Each call is a thread    *)
(* that runs apply_adapter with the defaults for inference_mode,           *)
(* adapter_type and load_adapters; a step is the code between two accesses *)
(* to the slots the calls share.                                           *)
(***************************************************************************)
\* a call is between its first and its last statement
InCall(p) == p.pc \notin {"idle", "done"}

\* (mutant) the wrapping model is returned and the slot keeps the base model
Assigned_dropped(sl, model) == sl

\* self.__llm_model__ = self._wrap_default_peft_model(...)
Assigned(sl, model) == [sl EXCEPT !.model = model, !.active = "default"]

\* the adapter_mapping dict a call holds: the dict inside __llm_adapter_map__ when the
\* transposition handed out the cached mapping, else the call's own dict
AdapterMappingOf(p, sl) == IF p.aliased THEN Family(sl.adapter_map, "lora") ELSE p.own

\* apply_adapter up to its early returns.  overlapped: another call was running while
\* this one was; loaded: the model slot was filled when the call began
AdapterEnter(t, use_cache) ==
  /\ llm.constructed
  /\ procs[t].pc = "idle"
  /\ LET busy == \E u \in Threads \ {t} : InCall(procs[u])
         started == [pc |-> "transpose", use_cache |-> use_cache, overlapped |-> busy,
                     loaded |-> ~SlotEmpty(slots.model), aliased |-> FALSE, mapping |-> <<>>,
                     own |-> <<>>,
                     result |-> NoObject, wrapped |-> FALSE, error |-> ""]
         mine == IF SlotEmpty(slots.model)
                 THEN [started EXCEPT !.pc = "done", !.error = "ValueError:not_loaded"]
                 ELSE IF ~TruthyMapping(llm.adapters_mapping) \/ AlreadyWrapped(slots.model)
                 THEN [started EXCEPT !.pc = "done", !.result = slots.model]
                 ELSE started
     IN procs' = [u \in Threads |->
                    IF u = t THEN mine
                    ELSE IF InCall(procs[u]) THEN [procs[u] EXCEPT !.overlapped = TRUE]
                    ELSE procs[u]]
  /\ UNCHANGED <<env, hubHead, mtime, tagCache, llm, lastOp, nCalls, slots, platform, heap,
                 lastCall, classTable, runnable, engine>>

\* _transpose_adapter_mapping up to its loop: the cached mapping is handed out when
\* there is one and use_cache is set, else the mapping is resolved into a new dict
AdapterTranspose(t) ==
  /\ procs[t].pc = "transpose"
  /\ LET Transposed(m) ==
           IF m.exc # ""
           THEN procs' = [procs EXCEPT ![t].pc = "done", ![t].error = m.exc]
           ELSE IF procs[t].use_cache /\ slots.adapter_map # NoneCache
           THEN procs' = [procs EXCEPT ![t].pc = "family", ![t].aliased = TRUE]
           ELSE procs' = [procs EXCEPT ![t].pc = "cache", ![t].mapping = m.mapping]
     IN Transposed(_transpose_adapter_mapping(llm, slots.adapter_map, TRUE, procs[t].use_cache))
  /\ UNCHANGED <<env, hubHead, mtime, tagCache, llm, lastOp, nCalls, slots, platform, heap,
                 lastCall, classTable, runnable, engine>>

\* the last statements of _transpose_adapter_mapping: the new dict is stored in
\* __llm_adapter_map__ when that is still None and use_cache is set, and returned
AdapterCache(t) ==
  /\ procs[t].pc = "cache"
  /\ IF CacheWritten(slots.adapter_map, procs[t].use_cache)
     THEN /\ slots' = [slots EXCEPT !.adapter_map = procs[t].mapping]
          /\ procs' = [procs EXCEPT ![t].pc = "family", ![t].aliased = TRUE, ![t].mapping = <<>>]
     ELSE /\ procs' = [procs EXCEPT ![t].pc = "family"]
          /\ UNCHANGED slots
  /\ UNCHANGED <<env, hubHead, mtime, tagCache, llm, lastOp, nCalls, platform, heap,
                 lastCall, classTable, runnable, engine>>

\* adapter_mapping = _mapping[adapter_type], after the check that the family is there
AdapterFamily(t) ==
  /\ procs[t].pc = "family"
  /\ LET _mapping == IF procs[t].aliased THEN slots.adapter_map ELSE procs[t].mapping
     IN IF ~HasFamily(_mapping, "lora")
        THEN procs' = [procs EXCEPT ![t].pc = "done", ![t].error = "ValueError:adapter_type"]
        ELSE procs' = [procs EXCEPT ![t].pc = "wrap", ![t].mapping = <<>>,
                                    ![t].own = IF procs[t].aliased THEN <<>>
                                               ELSE Family(_mapping, "lora")]
  /\ UNCHANGED <<env, hubHead, mtime, tagCache, llm, lastOp, nCalls, slots, platform, heap,
                 lastCall, classTable, runnable, engine>>

\* the call of _wrap_default_peft_model: it reads the model slot, pops "default" from
\* adapter_mapping and builds the wrapping model
AdapterWrap(t) ==
  /\ procs[t].pc = "wrap"
  /\ LET Wrapped(w) ==
           IF w.exc # ""
           THEN /\ procs' = [procs EXCEPT ![t].pc = "done", ![t].error = w.exc]
                /\ UNCHANGED <<slots, heap>>
           ELSE /\ procs' = [procs EXCEPT ![t].pc = "assign", ![t].result = w.model,
                                          ![t].wrapped = w.calls # <<>>,
                                          ![t].own = IF procs[t].aliased THEN <<>> ELSE w.rest]
                /\ slots' = IF procs[t].aliased
                            THEN [slots EXCEPT !.adapter_map = SetFamily(@, "lora", w.rest)]
                            ELSE slots
                /\ heap' = IF w.calls # <<>> THEN heap + 1 ELSE heap
     IN Wrapped(_wrap_default_peft_model(slots.model, AdapterMappingOf(procs[t], slots), heap))
  /\ UNCHANGED <<env, hubHead, mtime, tagCache, llm, lastOp, nCalls, platform,
                 lastCall, classTable, runnable, engine>>

\* the model that was returned is stored in the slot
AdapterAssign(t) ==
  /\ procs[t].pc = "assign"
  /\ slots' = Assigned(slots, procs[t].result)
  /\ procs' = [procs EXCEPT ![t].pc = "add"]
  /\ UNCHANGED <<env, hubHead, mtime, tagCache, llm, lastOp, nCalls, platform, heap,
                 lastCall, classTable, runnable, engine>>

\* the rest of adapter_mapping is added to the model in the slot, which is returned
AdapterAdd(t) ==
  /\ procs[t].pc = "add"
  /\ LET rest == AdapterMappingOf(procs[t], slots)
     IN slots' = [slots EXCEPT !.model.adapters = @ \cup {rest[i].name : i \in 1..Len(rest)}]
  /\ procs' = [procs EXCEPT ![t].pc = "done", ![t].result = slots'.model]
  /\ UNCHANGED <<env, hubHead, mtime, tagCache, llm, lastOp, nCalls, platform, heap,
                 lastCall, classTable, runnable, engine>>

\* the adapter maps of the handles the calls run on: one default, a default and a named
\* one, a named one only, one of another family
RaceAdapterMaps == {<< <<"a", None>> >>, << <<"a", None>>, <<"b", "extra">> >>, << <<"b", "extra">> >>,
                    << <<"c", None>> >>}

NextRace ==
  \/ \E adapter_map \in RaceAdapterMaps :
       FromPretrainedCall(ClsPt, [DefaultArgs EXCEPT !.adapter_map = adapter_map],
                          EnvUnset, SubPlain, 1)
  \/ ModelAccess
  \/ \E t \in Threads, use_cache \in BOOLEAN : AdapterEnter(t, use_cache)
  \/ \E t \in Threads : AdapterTranspose(t)
  \/ \E t \in Threads : AdapterCache(t)
  \/ \E t \in Threads : AdapterFamily(t)
  \/ \E t \in Threads : AdapterWrap(t)
  \/ \E t \in Threads : AdapterAssign(t)
  \/ \E t \in Threads : AdapterAdd(t)

SpecRace == InitHandle /\ [][NextRace]_vars

(***************************************************************************)
(* Subtypes are defined and their capability flags read.                   *)
(***************************************************************************)
SubtypeNames == {ClsPt, ClsVllm, ClsFlax}
OverrideSets == {{}, {"embeddings"}, {"generate", "embeddings"}}

\* class name(parent): ... with the methods of overrides in its body
DefineSubclass(name, parent, overrides) ==
  /\ name \notin DOMAIN classTable
  /\ parent \in DOMAIN classTable \ {ClsInterface}
  /\ classTable' = [c \in DOMAIN classTable \cup {name} |->
                      IF c = name THEN __init_subclass__(classTable, name, parent, overrides)
                      ELSE classTable[c]]
  /\ lastCall' = [NoCall EXCEPT !.op = "class", !.args = <<name, parent, overrides>>]
  /\ UNCHANGED <<env, hubHead, mtime, tagCache, llm, lastOp, nCalls, slots, platform, heap, runnable,
                 engine, procs>>

\* instance[item] on an instance of the subtype cls
GetItem(cls, item) ==
  /\ cls \in DOMAIN classTable \ {ClsInterface, ClsLLM}
  /\ LET Got(r) == lastCall' = [NoCall EXCEPT !.op = "__getitem__", !.args = <<cls, item>>,
                                             !.error = r.error, !.result = r.result]
     IN Got(LLM__getitem__(classTable, cls, item))
  /\ UNCHANGED <<env, hubHead, mtime, tagCache, llm, lastOp, nCalls, slots, platform, heap,
                 classTable, runnable, engine, procs>>

NextTypes ==
  \/ \E name \in SubtypeNames, parent \in SubtypeNames \cup {ClsLLM}, overrides \in OverrideSets :
       DefineSubclass(name, parent, overrides)
  \/ \E cls \in SubtypeNames, item \in {"supports_embeddings", "supports_generate", "supports_nothing"} :
       GetItem(cls, item)

SpecTypes == InitMerge /\ [][NextTypes]_vars

(***************************************************************************)
(* Properties of tag generation (checked under Spec).                      *)
(***************************************************************************)
\* the call lastOp records reached generate_tag
TagCalled == lastOp.tagcall # NoTagCall
CallId == lastOp.tagcall.key[2]
CallVersion == lastOp.tagcall.key[3]
CallImpl == _infer_implementation_from_name(lastOp.tagcall.key[1])
HasRevision(model_id) == Len(StrSplit(model_id, ":")) > 1
BareId(model_id) == StrSplit(model_id, ":")[1]

\* C1: two successive generate_tag calls with the same (subtype, model_id, model_version)
\* that both return a tag return the same tag, and at most one remote config fetch or
\* local-path hashing is performed in the two calls together, whatever happened to the
\* repository and the file system in between.
C1_TagMemoised ==
  [][(/\ nCalls' = nCalls + 1
      /\ lastOp.tagcall.exc = "" /\ lastOp'.tagcall.exc = ""
      /\ lastOp'.tagcall.key = lastOp.tagcall.key)
     => /\ lastOp'.tagcall.tag = lastOp.tagcall.tag
        /\ lastOp.tagcall.resolved + lastOp'.tagcall.resolved <= 1]_vars

\* a call was answered from the cache although resolving again would now give another answer
C1_Witness ==
  /\ TagCalled /\ lastOp.tagcall.hit /\ lastOp.tagcall.exc = ""
  /\ GenerateTagBody(lastOp.tagcall.key[1], CallId, CallVersion).resolved = 1
  /\ GenerateTagBody(lastOp.tagcall.key[1], CallId, CallVersion).tag # lastOp.tagcall.tag

\* C2: outside a bento, the tag of an id 'name:revision' is '<backend>-<normalised name>:<revision>'
\* (lower-cased), with the name component of the bare 'name', and the call never raises,
\* whether or not a model_version is passed.
C2_RevisionTagOfBareName ==
  (TagCalled /\ ~env.in_docker /\ HasRevision(CallId))
    => /\ lastOp.tagcall.exc = ""
       /\ lastOp.tagcall.name = StrLower(CallImpl \o <<"-">> \o normalise_model_name(BareId(CallId)))
       /\ lastOp.tagcall.version = StrLower(StrSplit(CallId, ":")[2])

C4_DockerTagVerbatim ==
  (TagCalled /\ env.in_docker)
    => LET parts == FsPathParts(CallId)
       IN /\ lastOp.tagcall.tag = parts[Len(parts) - 1] \o <<":">> \o parts[Len(parts)]
          /\ lastOp.tagcall.resolved = 0

\* C4 (amended): inside a bento the tag string is the last two path segments of model_id
\* joined by ":" and lower-cased, and nothing is fetched or hashed.
C4_DockerTagLowered ==
  (TagCalled /\ env.in_docker)
    => LET parts == FsPathParts(CallId)
       IN /\ lastOp.tagcall.tag = StrLower(parts[Len(parts) - 1] \o <<":">> \o parts[Len(parts)])
          /\ lastOp.tagcall.resolved = 0

C4_Witness ==
  /\ TagCalled /\ env.in_docker /\ CallId = IdBento /\ ~lastOp.tagcall.hit
  /\ lastOp.tagcall.tag = <<"n", ":", "v">>

\* C5: when generate_tag fails inside from_pretrained (the fetch or the local read raises,
\* or no version is obtained), from_pretrained raises OpenLLMException naming the model id,
\* constructs no handle, and a failed resolution was attempted exactly once.
ResolutionErrors == {"OSError", "ValueError", "FileNotFoundError", "NotFound"}
EffectiveId(given_id) ==
  LET id0 == IF given_id = NoneStr THEN DefaultId ELSE given_id
  IN IF PathExists(id0) THEN RealPath(id0) ELSE id0
C5_ResolutionFailure ==
  (lastOp.op = "from_pretrained" /\ TagCalled
     /\ (lastOp.tagcall.exc # "" \/ lastOp.tagcall.version = NoneStr))
    => /\ lastOp.error = "OpenLLMException"
       /\ lastOp.error_model_id = EffectiveId(lastOp.given.model_id)
       /\ ~lastOp.constructed
       /\ lastOp.tagcall.exc \in (ResolutionErrors \ {"NotFound"}) => lastOp.tagcall.resolved = 1
       /\ lastOp.tagcall.resolved <= 1

\* a remote fetch failed under from_pretrained after an earlier handle had been constructed
C5_Witness ==
  /\ lastOp.op = "from_pretrained" /\ lastOp.error = "OpenLLMException"
  /\ lastOp.tagcall.exc = "OSError" /\ lastOp.tagcall.resolved = 1
  /\ lastOp.error_model_id = IdRemote

(***************************************************************************)
(* Properties of option merging (checked under SpecMerge).                 *)
(***************************************************************************)
\* C6: a from_pretrained call given both a quantize method and a quantization_config raises
\* the conflict error, and the step resolves no tag, leaves the tag cache alone, fetches no
\* adapter config and constructs no handle.
C6_QuantizationConflict ==
  [][(/\ nCalls' = nCalls + 1
      /\ lastOp'.op = "from_pretrained"
      /\ lastOp'.given.quantize # None /\ lastOp'.given.quantization_config # None)
     => /\ lastOp'.error = "ValueError:quantization"
        /\ lastOp'.tagcall = NoTagCall
        /\ tagCache' = tagCache
        /\ lastOp'.adapter_fetches = 0
        /\ ~lastOp'.constructed /\ llm' = llm]_vars

\* the conflict was raised for a call that also carried an adapter map
C6_Witness ==
  /\ lastOp.op = "from_pretrained" /\ lastOp.error = "ValueError:quantization"
  /\ lastOp.given.quantize = "gptq" /\ lastOp.given.quantization_config = "custom"
  /\ lastOp.given.adapter_map # NoneMap
  /\ tagCache = <<>>

\* C7: a from_pretrained call given both an adapter_map (any map, the empty one included)
\* and an adapter_id raises a conflict error (peft being installed).
C7_AdapterConflict ==
  (lastOp.op = "from_pretrained" /\ lastOp.given.adapter_map # NoneMap
     /\ lastOp.given.adapter_id # None /\ lastOp.e.peft_available)
    => lastOp.error \in {"ValueError:adapter", "ValueError:quantization"}

\* C8: the handle of a vllm subtype stores the serialisation format "legacy", whatever
\* serialisation and quantize were passed.
C8_VllmLegacy ==
  (lastOp.constructed /\ llm.implementation = <<"v", "l", "l", "m">>)
    => llm.serialisation_format = "legacy"

\* C9: the handle's bettertransformer is the caller's value if one was given, else the
\* environment's, else the one llm_post_init set, else config["bettertransformer"], and
\* False whenever a non-empty adapters mapping was supplied.
FlagOf(v) == StrUpper(v) \in ENV_VARS_TRUE_VALUES
C9_BettertransformerOrder ==
  (lastOp.op = "from_pretrained" /\ lastOp.constructed)
    => LET chosen ==
             IF lastOp.given.bettertransformer # None THEN FlagOf(lastOp.given.bettertransformer)
             ELSE IF lastOp.e.bettertransformer_value # None
               THEN FlagOf(lastOp.e.bettertransformer_value)
             ELSE IF lastOp.sub.post_init # None THEN FlagOf(lastOp.sub.post_init)
             ELSE FlagOf(lastOp.sub.config_bettertransformer)
       IN FlagOf(llm.bettertransformer) = (chosen /\ ~TruthyMapping(llm.adapters_mapping))

\* C10: a handle created by Runner(model_name, llm_config=cfg, **attrs) has the model_id,
\* quantize, runtime, bettertransformer and serialisation values the caller passed.
C10_RunnerExplicitWins ==
  (lastOp.op = "Runner" /\ lastOp.with_config /\ lastOp.constructed)
    => /\ lastOp.given.model_id # NoneStr => llm.model_id = EffectiveId(lastOp.given.model_id)
       /\ lastOp.given.quantize # None => llm.quantize_method = lastOp.given.quantize
       /\ lastOp.given.runtime # None => llm.runtime = lastOp.given.runtime
       /\ lastOp.given.bettertransformer = "True" => llm.bettertransformer = "True"
       /\ (lastOp.given.serialisation # None /\ llm.quantize_method # "gptq")
            => llm.serialisation_format = lastOp.given.serialisation

(***************************************************************************)
(* Properties of a handle's adapters (checked under SpecHandle).           *)
(***************************************************************************)
\* the function names of the calls an operation made
CallNames(calls) == [i \in 1..Len(calls) |-> calls[i][1]]
CountCalls(calls, fn) == Cardinality({i \in 1..Len(calls) : calls[i][1] = fn})

\* two adapters of one family have no name, in an adapter map / in an adapters mapping
TwoNullsInFamilyOfMap(adapter_map) ==
  \E i, j \in 1..Len(adapter_map) :
    /\ i # j /\ adapter_map[i][2] = None /\ adapter_map[j][2] = None
    /\ AdapterConfig(adapter_map[i][1]).peft_type = AdapterConfig(adapter_map[j][1]).peft_type
TwoNullsInFamily(mapping) ==
  \E f \in 1..Len(mapping) : \E i, j \in 1..Len(mapping[f].adapters) :
    i # j /\ mapping[f].adapters[i].name = None /\ mapping[f].adapters[j].name = None

\* C11: resolving an adapter map (in from_pretrained) raises the default-name error exactly
\* when one family holds two adapters without a name, and so does resolving the handle's
\* adapters mapping in _transpose_adapter_mapping; one nameless adapter in each of
\* several families is accepted and named "default".
C11_DefaultPerFamily ==
  /\ (lastOp.op = "from_pretrained" /\ lastOp.given.adapter_map # NoneMap
        /\ lastOp.error \in {"", "ValueError:default"})
       => (lastOp.error = "ValueError:default" <=> TwoNullsInFamilyOfMap(lastOp.given.adapter_map))
  /\ (lastCall.op = "_transpose_adapter_mapping" /\ llm.adapters_mapping # NoneMapping
        /\ lastCall.args[2] = FALSE)
       => (lastCall.error = "ValueError:default" <=> TwoNullsInFamily(llm.adapters_mapping))

\* the handle was made of the map {a: None, b: "extra"}, both adapters in the lora family
TwoAdapterHandle ==
  /\ llm.constructed /\ llm.adapters_mapping # NoneMapping /\ Len(llm.adapters_mapping) = 1
  /\ llm.adapters_mapping[1].type = "lora"
  /\ Len(llm.adapters_mapping[1].adapters) = 2
  /\ llm.adapters_mapping[1].adapters[1].adapter_id = "a"
  /\ llm.adapters_mapping[1].adapters[1].name \in {None, "default"}
  /\ llm.adapters_mapping[1].adapters[2].adapter_id = "b"
  /\ llm.adapters_mapping[1].adapters[2].name = "extra"

\* C12: for the adapter map {a: None, b: "extra"} of one family, a first resolution gives
\* {"default": (config of a, a), "extra": (config of b, b)}, and apply_adapter on a loaded,
\* not yet wrapped transformers model wraps it once with the default adapter a and then
\* adds "extra" through add_adapter once.
C12_DefaultThenExtra ==
  [][(TwoAdapterHandle /\ nCalls' = nCalls + 1)
       => /\ (lastCall'.op = "_transpose_adapter_mapping" /\ slots.adapter_map = NoneCache)
               => /\ lastCall'.error = ""
                  /\ Len(lastCall'.result) = 1 /\ lastCall'.result[1].type = "lora"
                  /\ DictKeys(lastCall'.result[1].entries) = <<"default", "extra">>
                  /\ lastCall'.result[1].entries[1].adapter_id = "a"
                  /\ lastCall'.result[1].entries[1].peft_config.config = AdapterConfig("a")
                  /\ lastCall'.result[1].entries[2].adapter_id = "b"
                  /\ lastCall'.result[1].entries[2].peft_config.config = AdapterConfig("b")
          /\ (lastCall'.op = "apply_adapter" /\ lastCall'.args[2] = "lora"
                /\ slots.model # NoObject /\ ~slots.model.peft /\ slots.model.pretrained
                /\ slots.adapter_map = NoneCache)
               => /\ SubSeq(lastCall'.calls, 1, 2) = <<PeftCall("wrap", "a"), PeftCall("add_adapter", "extra")>>
                  /\ CountCalls(lastCall'.calls, "wrap") = 1
                  /\ CountCalls(lastCall'.calls, "add_adapter") = 1
                  /\ slots'.model.peft /\ slots'.model.adapters = {"default", "extra"}]_vars

\* apply_adapter(load_adapters="all") wrapped the loaded model of such a handle
C12_Witness ==
  /\ TwoAdapterHandle /\ lastCall.op = "apply_adapter" /\ lastCall.error = ""
  /\ lastCall.args[3] = LoadAll
  /\ lastCall.calls = <<PeftCall("wrap", "a"), PeftCall("add_adapter", "extra"),
                        PeftCall("load_adapter", "extra")>>
  /\ slots.model.peft

\* C13: once __llm_adapter_map__ holds a resolved mapping no operation changes its content,
\* and an operation called with use_cache=False leaves the cache as it was.
C13_CacheWrittenOnce ==
  [][/\ slots.adapter_map # NoneCache => slots'.adapter_map = slots.adapter_map
     /\ (lastCall'.op = "_transpose_adapter_mapping" /\ lastCall'.args[2] = FALSE)
          => slots'.adapter_map = slots.adapter_map
     /\ (lastCall'.op = "apply_adapter" /\ lastCall'.args[4] = FALSE)
          => slots'.adapter_map = slots.adapter_map]_vars

\* C14: apply_adapter on a handle whose model is already a peft model returns that very
\* object, calls neither wrap nor add_adapter nor load_adapter, and leaves the slots (the
\* adapter cache included) as they were, whatever its arguments.
C14_AlreadyWrappedNoop ==
  [][(slots.model.peft /\ nCalls' = nCalls + 1 /\ lastCall'.op = "apply_adapter")
       => /\ lastCall'.error = "" /\ lastCall'.result = slots.model
          /\ lastCall'.calls = <<>>
          /\ slots' = slots]_vars

\* apply_adapter(adapter_type="adalora", load_adapters=["extra"], use_cache=False) returned
\* the already wrapped model of a handle that has no adapter of that family
C14_Witness ==
  /\ lastCall.op = "apply_adapter" /\ lastCall.error = "" /\ lastCall.calls = <<>>
  /\ lastCall.args = <<TRUE, "adalora", <<"extra">>, FALSE>>
  /\ slots.model.peft /\ lastCall.result = slots.model
  /\ TwoAdapterHandle

(***************************************************************************)
(* Properties of a handle's lifecycle (checked under SpecHandle).          *)
(***************************************************************************)
\* C15: a handle only moves forward: a loaded model is never unloaded, a peft-wrapped
\* model is never replaced by an unwrapped one, the model becomes wrapped only through
\* apply_adapter (called directly or by the runnable's construction) on a model that
\* is loaded by then, and apply_adapter on a handle whose model is not loaded raises,
\* calls nothing and leaves the slots empty.
C15_ForwardOnly ==
  [][(llm.constructed /\ nCalls' = nCalls + 1)
       => /\ slots.model # NoObject => slots'.model # NoObject
          /\ slots.model.peft => slots'.model.peft
          /\ (~slots.model.peft /\ slots'.model.peft)
               => /\ lastCall'.op \in {"apply_adapter", "_Runnable.__init__"}
                  /\ \/ slots.model # NoObject
                     \/ /\ lastCall'.op = "_Runnable.__init__"
                        /\ CallNames(lastCall'.calls)[1] = "load_model"
          /\ (lastCall'.op = "apply_adapter" /\ slots.model = NoObject)
               => /\ lastCall'.error = "ValueError:not_loaded" /\ lastCall'.calls = <<>>
                  /\ slots' = slots]_vars

\* a handle made with bettertransformer=True and an adapter was loaded, wrapped and then
\* saved, and its model is still the wrapped one
C15_Witness ==
  /\ llm.constructed
  /\ lastOp.given.bettertransformer = "True" /\ TruthyMapping(llm.adapters_mapping)
  /\ lastCall.op = "save_pretrained" /\ lastCall.error = ""
  /\ slots.model.peft

\* C16 as stated: construction invokes no load_model, a successful .model access on an
\* unloaded handle invokes load_model once, and a later .model access returns the object
\* the previous access returned, without load_model, whenever no apply_adapter ran in between.
C16_SameObjectUnlessApplied ==
  [][(nCalls' = nCalls + 1)
       => /\ lastCall'.op \in {"from_pretrained", "__init__"}
               => CountCalls(lastCall'.calls, "load_model") = 0
          /\ (lastCall'.op = "model" /\ lastCall'.error = "" /\ slots.model = NoObject)
               => CountCalls(lastCall'.calls, "load_model") = 1
          /\ (lastCall'.op = "model" /\ lastCall'.error = "" /\ lastCall.seen # NoObject)
               => /\ lastCall'.result = lastCall.seen
                  /\ CountCalls(lastCall'.calls, "load_model") = 0]_vars

\* C16 (amended): construction invokes no load_model, a successful .model access on an
\* unloaded handle invokes load_model once, a .model access on a loaded handle returns the
\* object in the slot without any call, and the object in the slot is replaced only by
\* apply_adapter (also within the runnable's construction) and by save_pretrained.
C16_SameObjectUnlessAppliedOrSaved ==
  [][(nCalls' = nCalls + 1)
       => /\ lastCall'.op \in {"from_pretrained", "__init__"}
               => CountCalls(lastCall'.calls, "load_model") = 0
          /\ (lastCall'.op = "model" /\ lastCall'.error = "" /\ slots.model = NoObject)
               => CountCalls(lastCall'.calls, "load_model") = 1
          /\ (lastCall'.op = "model" /\ lastCall'.error = "" /\ slots.model # NoObject)
               => /\ lastCall'.result = slots.model /\ lastCall'.calls = <<>>
                  /\ slots' = slots
          /\ (slots.model # NoObject /\ slots'.model # slots.model)
               => lastCall'.op \in {"apply_adapter", "_Runnable.__init__", "save_pretrained"}]_vars

\* .model was read a second time with only a tokenizer access in between and returned the
\* object of the first access without a load
C16_Witness ==
  /\ lastCall.op = "model" /\ lastCall.error = "" /\ lastCall.calls = <<>>
  /\ lastCall.result = slots.model /\ slots.model # NoObject
  /\ slots.tokenizer # 0 /\ slots.tokenizer > slots.model.id

\* C17: while the config requires a GPU and no device is available, the model slot stays
\* unloaded, and a .model access raises GpuNotAvailableError without invoking load_model.
C17_GpuRequired ==
  (platform.requires_gpu /\ platform.device_count = 0)
    => /\ slots.model = NoObject
       /\ lastCall.op = "model"
            => /\ lastCall.error = "GpuNotAvailableError"
               /\ lastCall.calls = <<>>

\* .model was read on a handle that requires a GPU where there is none
C17_Witness ==
  /\ platform.requires_gpu /\ platform.device_count = 0
  /\ lastCall.op = "model" /\ lastCall.error = "GpuNotAvailableError"

(***************************************************************************)
(* Properties of the capability flags (checked under SpecTypes).           *)
(***************************************************************************)
\* the body of cls, or of an ancestor of cls below LLM, defines the method fn
RECURSIVE OverriddenBelowLLM(_, _, _)
OverriddenBelowLLM(table, cls, fn) ==
  IF cls \in {ClsLLM, ClsInterface} THEN FALSE
  ELSE fn \in table[cls].body \/ OverriddenBelowLLM(table, table[cls].parent, fn)

\* C18: the supports_embeddings flag of every subtype is True exactly when the subtype or
\* one of its ancestors below LLM defines embeddings; defining further subtypes or reading
\* the flag never changes it, and instance["supports_embeddings"] returns it.
C18_SupportsEmbeddings ==
  [][/\ \A c \in DOMAIN classTable' \ {ClsInterface, ClsLLM} :
          /\ classTable'[c].flags["embeddings"] = OverriddenBelowLLM(classTable', c, "embeddings")
          /\ c \in DOMAIN classTable => classTable'[c].flags = classTable[c].flags
     /\ (lastCall'.op = "__getitem__" /\ lastCall'.args[2] = "supports_embeddings")
          => /\ lastCall'.error = ""
             /\ lastCall'.result = OverriddenBelowLLM(classTable', lastCall'.args[1], "embeddings")]_vars

\* the flag was read as True on a subtype that inherits embeddings from its parent subtype,
\* next to a subtype without any override whose flag is False
C18_Witness ==
  /\ lastCall.op = "__getitem__" /\ lastCall.args[2] = "supports_embeddings"
  /\ lastCall.result = TRUE
  /\ classTable[lastCall.args[1]].body = {}
  /\ "embeddings" \in classTable[classTable[lastCall.args[1]].parent].body
  /\ \E c \in DOMAIN classTable \ {ClsInterface, ClsLLM} : ~classTable[c].flags["embeddings"]

(***************************************************************************)
(* Properties of the generation pipeline and of the runnable (checked      *)
(* under SpecHandle).                                                      *)
(***************************************************************************)
PipelineOps == {"__call__", "predict", "runner.__call__"}
IsStage(call) == call[1] \in {"sanitize_parameters", "generate", "postprocess_generate"}
\* the calls to the three hooks among the calls of the last operation
StageCalls == SelectSeq(lastCall.calls, IsStage)
\* what sanitize_parameters returned in the last operation
Sanitised == sanitize_parameters(platform, lastCall.args[1], lastCall.args[2])

\* C19: a call of the handle, of predict or of the runner that returns has called
\* sanitize_parameters, generate and postprocess_generate once each, in that order:
\* sanitize_parameters with the caller's prompt and options, generate with the sanitized
\* prompt (and, on the handle, the generate options), postprocess_generate with the
\* sanitized prompt, the raw result of generate and the postprocess options; it returns
\* what postprocess_generate returned, which with LLMInterface's own sanitize and
\* postprocess hooks is the raw result of generate(prompt, **kwargs).
C19_ThreeStages ==
  (lastCall.op \in PipelineOps /\ lastCall.error = "")
    => /\ CallNames(StageCalls) = <<"sanitize_parameters", "generate", "postprocess_generate">>
       /\ StageCalls[1][2] = <<lastCall.args[1]>> \o KwSeq(lastCall.args[2])
       /\ StageCalls[2][2][1] = Sanitised.prompt
       /\ lastCall.op # "runner.__call__"
            => StageCalls[2][2] = <<Sanitised.prompt>> \o KwSeq(Sanitised.generate_kwargs)
       /\ StageCalls[3][2] = <<Sanitised.prompt>> \o <<"out">> \o StageCalls[2][2]
                               \o KwSeq(Sanitised.postprocess_kwargs)
       /\ lastCall.result = postprocess_generate(llm, platform, Sanitised.prompt,
                                                 <<"out">> \o StageCalls[2][2],
                                                 Sanitised.postprocess_kwargs)
       /\ (~platform.custom_hooks /\ llm.implementation # <<"v", "l", "l", "m">>
             /\ lastCall.op # "runner.__call__")
            => lastCall.result = <<"out", lastCall.args[1]>> \o KwSeq(lastCall.args[2])

\* llm("p", temperature="0") returned on a subtype with its own sanitize and postprocess
\* hooks: the templated prompt went through generate and postprocess_generate
C19_Witness ==
  /\ lastCall.op = "__call__" /\ lastCall.error = "" /\ platform.custom_hooks
  /\ lastCall.args = <<"p", [NoKwargs EXCEPT !.temperature = "0"]>>
  /\ lastCall.result = <<"first", "out", "tp", None, "0">>

\* the names an operation's calls to the peft function fn were made with
PeftNames(calls, fn) == {calls[i][2][1] : i \in {j \in 1..Len(calls) : calls[j][1] = fn}}

\* C20: requests are served by a constructed runnable only, and while the runnable exists
\* the handle's model is loaded, and is a peft model when the handle has adapters; a
\* construction of the runnable that raised (load_model or apply_adapter failed) left no
\* runnable, and one that wrapped the model loaded every adapter it added
\* (load_adapters="all").
C20_RunnableReady ==
  /\ lastCall.op \in {"runner.__call__", "set_adapter"} => runnable
  /\ runnable
       => /\ slots.model # NoObject
          /\ TruthyMapping(llm.adapters_mapping) => slots.model.peft
  /\ lastCall.op = "_Runnable.__init__"
       => /\ lastCall.error # "" => ~runnable
          /\ (lastCall.error = "" /\ CountCalls(lastCall.calls, "wrap") = 1)
               => /\ PeftNames(lastCall.calls, "load_adapter") = PeftNames(lastCall.calls, "add_adapter")
                  /\ slots.model.adapters = {"default"} \cup PeftNames(lastCall.calls, "add_adapter")

\* a runner whose construction loaded the model and applied "default" and "extra" has
\* served a request
C20_Witness ==
  /\ runnable /\ slots.model.peft /\ slots.model.adapters = {"default", "extra"}
  /\ lastCall.op = "runner.__call__" /\ lastCall.error = ""
  /\ TwoAdapterHandle

(***************************************************************************)
(* Properties of loading adapters and of resolving them (checked under     *)
(* SpecHandle).                                                            *)
(***************************************************************************)
\* the names the adapters of the family tp of the handle resolve to
ResolvedNames(tp) ==
  UNION {{IF llm.adapters_mapping[f].adapters[i].name = None THEN "default"
          ELSE llm.adapters_mapping[f].adapters[i].name :
            i \in 1..Len(llm.adapters_mapping[f].adapters)} :
         f \in {g \in 1..Len(llm.adapters_mapping) : llm.adapters_mapping[g].type = tp}}

\* C24: an apply_adapter call that wrapped the model makes no load_adapter call with
\* load_adapters=None, with "all" returns having loaded every adapter of the family (the
\* default one by the wrap, the others by load_adapter), and with a list of names of the
\* resolved mapping, "default" allowed, returns having loaded exactly the listed ones.
C24_LoadAdapters ==
  (lastCall.op = "apply_adapter" /\ CountCalls(lastCall.calls, "wrap") = 1)
    => /\ lastCall.args[3] = LoadNone => PeftNames(lastCall.calls, "load_adapter") = {}
       /\ lastCall.args[3] = LoadAll
            => /\ lastCall.error = ""
               /\ PeftNames(lastCall.calls, "load_adapter") \cup {"default"}
                    = ResolvedNames(lastCall.args[2])
       /\ (lastCall.args[3] \notin {LoadNone, LoadAll}
             /\ \A i \in 1..Len(lastCall.args[3]) : lastCall.args[3][i] \in ResolvedNames(lastCall.args[2]))
            => /\ lastCall.error = ""
               /\ PeftNames(lastCall.calls, "load_adapter") \ {"default"}
                    = {lastCall.args[3][i] : i \in 1..Len(lastCall.args[3])} \ {"default"}

(***************************************************************************)
(* Further properties of the capability flags (checked under SpecTypes).   *)
(***************************************************************************)
\* C26: each supports_* flag of a subtype tells whether the method the subtype ends up
\* with after its definition differs from LLMInterface's; a vllm subtype that defines no
\* generate therefore has supports_generate True, its generate being the injected one.
C26_FlagIsEffectiveMethod ==
  \A c \in DOMAIN classTable \ {ClsInterface, ClsLLM} : \A fn \in InterfaceMethods :
    classTable[c].flags[fn] = (ClassGetattr(classTable, c, fn) # ClsInterface)

(***************************************************************************)
(* Further properties of adapter resolution (checked under SpecHandle).    *)
(***************************************************************************)
\* C28: every peft config of the mapping _transpose_adapter_mapping(inference_mode=m)
\* returns is composed for the mode m, whatever an earlier call left in the cache.
C28_ComposedForMode ==
  (lastCall.op = "_transpose_adapter_mapping" /\ lastCall.error = "")
    => \A f \in 1..Len(lastCall.result) : \A i \in 1..Len(lastCall.result[f].entries) :
         lastCall.result[f].entries[i].peft_config.inference_mode = lastCall.args[1]

\* the number of (family, name) entries of a resolved mapping
RECURSIVE CountEntries(_)
CountEntries(mapping) ==
  IF Len(mapping) = 0 THEN 0 ELSE Len(mapping[1].entries) + CountEntries(Tail(mapping))

\* C27: the mapping a first, uncached resolution of the handle's adapters returns has as
\* many (family, name) entries as the adapter map the handle was made from has adapters.
C27_EveryAdapterResolved ==
  (lastCall.op = "_transpose_adapter_mapping" /\ lastCall.error = ""
     /\ lastCall.args[2] = FALSE /\ lastOp.op = "from_pretrained")
    => CountEntries(lastCall.result) = Len(lastOp.given.adapter_map)

(***************************************************************************)
(* Properties of the active adapter of a runnable (checked under           *)
(* SpecHandle).                                                            *)
(***************************************************************************)
\* C21: after a set_adapter(name) on the runnable that returned, the active adapter of the
\* model is name, "default" included, and the call did not invoke load_model.
C21_SetAdapterActivates ==
  (lastCall.op = "set_adapter" /\ lastCall.error = "")
    => /\ slots.active = lastCall.args[1]
       /\ CountCalls(lastCall.calls, "load_model") = 0

\* C29: a request served by _Runnable.generate, directly or under the runner's __call__,
\* that carries no adapter_name makes no set_adapter call and leaves the model and its
\* active adapter as they were.
C29_NoAdapterNameKeepsActive ==
  [][(nCalls' = nCalls + 1 /\ lastCall'.op \in {"runner.__call__", "runnable.generate"}
        /\ lastCall'.args[2].adapter_name = None)
       => /\ slots'.active = slots.active
          /\ slots'.model = slots.model
          /\ CountCalls(lastCall'.calls, "set_adapter") = 0]_vars

\* "extra", selected by an earlier request, is still active after a request without
\* adapter_name was served
C29_Witness ==
  /\ runnable /\ slots.model.peft /\ slots.active = "extra"
  /\ lastCall.op = "runnable.generate" /\ lastCall.error = ""
  /\ lastCall.args[2].adapter_name = None

(***************************************************************************)
(* Properties of loading the model (checked under SpecHandle).             *)
(***************************************************************************)
\* C30: the load_model of a subtype that is not a vllm one, called by the first access to
\* .model, receives the positional model arguments the handle keeps, each once and in
\* their order, and the keyword arguments the handle keeps.
C30_StoredArgumentsOnce ==
  (lastCall.op = "model" /\ lastCall.error = "" /\ lastCall.calls # <<>>
     /\ llm.implementation # <<"v", "l", "l", "m">>)
    => lastCall.calls[1] = Invoke("load_model", <<llm.model_decls, llm.model_attrs>>)

(***************************************************************************)
(* Properties of streaming (checked under SpecHandle).                     *)
(***************************************************************************)
\* C22: iterating the runnable's generate_iterator gives the caller the partial results of
\* the handle's generate_iterator, one item each and in their order.
C22_YieldsPartialResults ==
  (lastCall.op = "runnable.generate_iterator" /\ lastCall.error = "")
    => lastCall.result = [i \in 1..Len(lastCall.args[3]) |-> [partial |-> lastCall.args[3][i]]]

(***************************************************************************)
(* Properties of generate on a vllm handle (checked under SpecEngine).     *)
(***************************************************************************)
\* C23: a generate call on a vllm handle that has returned returns the finished output of
\* its own request and of no other, and it did not step the engine any more once its own
\* request had finished, whatever other requests the engine holds.
C23_OwnRequestOnly ==
  \A t \in Threads :
    procs[t].pc = "done"
      => /\ procs[t].outputs = {procs[t].request_id}
         /\ procs[t].late = 0

(***************************************************************************)
(* Properties of concurrent apply_adapter calls (checked under SpecRace).  *)
(***************************************************************************)
\* the handle's adapters resolve to a lora mapping with a "default" entry, and its
\* load_model builds a transformers.PreTrainedModel
Wrappable ==
  /\ llm.constructed
  /\ platform.pretrained
  /\ LET m == _transpose_adapter_mapping(llm, NoneCache, TRUE, FALSE)
     IN m.exc = "" /\ HasFamily(m.mapping, "lora") /\ DictHas(Family(m.mapping, "lora"), "default")

\* C25: when two apply_adapter calls on a loaded handle whose adapters can be applied
\* have run one after the other, in either order, exactly one of them has wrapped the
\* base model and neither has failed; a second wrapping or a failure is only seen when
\* the calls overlapped.
C25_SerializedWrapsOnce ==
  (/\ Wrappable
   /\ \A t \in Threads : procs[t].pc = "done" /\ procs[t].loaded /\ ~procs[t].overlapped)
    => /\ Cardinality({t \in Threads : procs[t].wrapped}) = 1
       /\ \A t \in Threads : procs[t].error = ""

\* two overlapping calls, both with use_cache left at its default, have both wrapped the
\* base model
C25_Witness ==
  /\ Wrappable
  /\ \A t \in Threads : procs[t].pc = "done" /\ procs[t].use_cache
  /\ \A t \in Threads : procs[t].pc = "done" /\ procs[t].loaded /\ procs[t].overlapped
  /\ \A t \in Threads : procs[t].wrapped /\ procs[t].error = ""

\* of two overlapping calls one has failed for want of the "default" entry the other removed
C25_WitnessNoDefault ==
  /\ Wrappable
  /\ \A t \in Threads : procs[t].pc = "done" /\ procs[t].loaded /\ procs[t].overlapped
  /\ \E t \in Threads : procs[t].error = "ValueError:no_default"
  /\ \E t \in Threads : procs[t].wrapped

\* two calls have run one after the other on a handle whose adapters can be applied
C25_WitnessSerialized ==
  /\ Wrappable
  /\ \A t \in Threads : procs[t].pc = "done" /\ procs[t].loaded /\ ~procs[t].overlapped
====
